---- MODULE Spec2Model ----
(***************************************************************************)
(* Model of the ONNX conversion scripts of mlOS-foundation/axon            *)
(* (scripts/conversion): task detection from config.json, the strategy     *)
(* chains of the Hugging Face, PyTorch and TensorFlow converters, and the  *)
(* output directory they share.                                            *)
(*                                                                         *)
(* Text that the code inspects character by character (identifiers,       *)
(* model_type, auto_map values) is a sequence of one-character strings;    *)
(* Join turns such a sequence into the string used as a dictionary key.    *)
(***************************************************************************)
EXTENDS Integers, Sequences, FiniteSets, TLC

(***************************************************************************)
(* Python str operations, computed character by character (ASCII).         *)
(***************************************************************************)
LowerAlpha == <<"a","b","c","d","e","f","g","h","i","j","k","l","m",
                "n","o","p","q","r","s","t","u","v","w","x","y","z">>

UpperAlpha == <<"A","B","C","D","E","F","G","H","I","J","K","L","M",
                "N","O","P","Q","R","S","T","U","V","W","X","Y","Z">>

IsLowerCh(c) == \E i \in DOMAIN LowerAlpha : LowerAlpha[i] = c

IsUpperCh(c) == \E i \in DOMAIN UpperAlpha : UpperAlpha[i] = c

IsAlphaCh(c) == IsLowerCh(c) \/ IsUpperCh(c)

\* str.lower() on one character
LowerCh(c) ==
    IF IsUpperCh(c)
    THEN LowerAlpha[CHOOSE i \in DOMAIN UpperAlpha : UpperAlpha[i] = c]
    ELSE c

\* str.upper() on one character
UpperCh(c) ==
    IF IsLowerCh(c)
    THEN UpperAlpha[CHOOSE i \in DOMAIN LowerAlpha : LowerAlpha[i] = c]
    ELSE c

\* s.lower()
StrLower(s) == [i \in DOMAIN s |-> LowerCh(s[i])]

\* s.title(): a letter that follows a letter is lowered, any other letter is
\* raised, every other character is kept.
StrTitle(s) ==
    [i \in DOMAIN s |->
        IF ~IsAlphaCh(s[i]) THEN s[i]
        ELSE IF i > 1 /\ IsAlphaCh(s[i - 1]) THEN LowerCh(s[i])
        ELSE UpperCh(s[i])]

\* s.replace(c, '') for a one-character c
RECURSIVE StrRemove(_, _)
StrRemove(s, c) ==
    IF s = <<>> THEN <<>>
    ELSE IF Head(s) = c THEN StrRemove(Tail(s), c)
    ELSE <<Head(s)>> \o StrRemove(Tail(s), c)

\* c in s, for a one-character c
HasCh(s, c) == \E i \in DOMAIN s : s[i] = c

\* sub in s
Contains(s, sub) ==
    \E i \in 0 .. (Len(s) - Len(sub)) :
        \A j \in 1 .. Len(sub) : s[i + j] = sub[j]

\* s.startswith(pre)
StartsWith(s, pre) ==
    /\ Len(pre) <= Len(s)
    /\ \A j \in 1 .. Len(pre) : s[j] = pre[j]

\* position of the first / last occurrence of the character c in s (0: none)
FirstIndex(s, c) ==
    IF HasCh(s, c)
    THEN CHOOSE i \in DOMAIN s : s[i] = c /\ \A j \in 1 .. (i - 1) : s[j] # c
    ELSE 0

LastIndex(s, c) ==
    IF HasCh(s, c)
    THEN CHOOSE i \in DOMAIN s : s[i] = c /\ \A j \in (i + 1) .. Len(s) : s[j] # c
    ELSE 0

\* the dictionary key (an atomic string) spelled by a character sequence
RECURSIVE Join(_)
Join(s) == IF s = <<>> THEN "" ELSE Head(s) \o Join(Tail(s))

(***************************************************************************)
(* The architecture registry (convert_huggingface.py).                     *)
(***************************************************************************)
TASK_MAPPING ==
    "ResNetConfig" :> "image-classification"
    @@ "ResNetForImageClassification" :> "image-classification"
    @@ "ViTConfig" :> "image-classification"
    @@ "ViTForImageClassification" :> "image-classification"
    @@ "ViTMAEConfig" :> "image-classification"
    @@ "ViTMSNConfig" :> "image-classification"
    @@ "DeiTConfig" :> "image-classification"
    @@ "DeiTForImageClassification" :> "image-classification"
    @@ "BeitConfig" :> "image-classification"
    @@ "BeitForImageClassification" :> "image-classification"
    @@ "SwinConfig" :> "image-classification"
    @@ "SwinForImageClassification" :> "image-classification"
    @@ "Swinv2Config" :> "image-classification"
    @@ "Swinv2ForImageClassification" :> "image-classification"
    @@ "ConvNextConfig" :> "image-classification"
    @@ "ConvNextForImageClassification" :> "image-classification"
    @@ "ConvNextV2Config" :> "image-classification"
    @@ "ConvNextV2ForImageClassification" :> "image-classification"
    @@ "EfficientNetConfig" :> "image-classification"
    @@ "EfficientNetForImageClassification" :> "image-classification"
    @@ "VGGConfig" :> "image-classification"
    @@ "MobileNetV1Config" :> "image-classification"
    @@ "MobileNetV2Config" :> "image-classification"
    @@ "MobileNetV2ForImageClassification" :> "image-classification"
    @@ "MobileViTConfig" :> "image-classification"
    @@ "MobileViTForImageClassification" :> "image-classification"
    @@ "MobileViTV2Config" :> "image-classification"
    @@ "RegNetConfig" :> "image-classification"
    @@ "RegNetForImageClassification" :> "image-classification"
    @@ "Dinov2Config" :> "image-classification"
    @@ "Dinov2ForImageClassification" :> "image-classification"
    @@ "PoolFormerConfig" :> "image-classification"
    @@ "PoolFormerForImageClassification" :> "image-classification"
    @@ "LevitConfig" :> "image-classification"
    @@ "LevitForImageClassification" :> "image-classification"
    @@ "CvtConfig" :> "image-classification"
    @@ "CvtForImageClassification" :> "image-classification"
    @@ "FocalNetConfig" :> "image-classification"
    @@ "BitConfig" :> "image-classification"
    @@ "BitForImageClassification" :> "image-classification"
    @@ "Data2VecVisionConfig" :> "image-classification"
    @@ "Data2VecVisionForImageClassification" :> "image-classification"
    @@ "NatConfig" :> "image-classification"
    @@ "NatForImageClassification" :> "image-classification"
    @@ "DinatConfig" :> "image-classification"
    @@ "PvtConfig" :> "image-classification"
    @@ "PvtV2Config" :> "image-classification"
    @@ "VanConfig" :> "image-classification"
    @@ "DenseNetConfig" :> "image-classification"
    @@ "InceptionV3Config" :> "image-classification"
    @@ "DetrConfig" :> "object-detection"
    @@ "DetrForObjectDetection" :> "object-detection"
    @@ "YolosConfig" :> "object-detection"
    @@ "YolosForObjectDetection" :> "object-detection"
    @@ "ConditionalDetrConfig" :> "object-detection"
    @@ "DeformableDetrConfig" :> "object-detection"
    @@ "DetaConfig" :> "object-detection"
    @@ "GroundingDinoConfig" :> "object-detection"
    @@ "RTDetrConfig" :> "object-detection"
    @@ "SegformerConfig" :> "semantic-segmentation"
    @@ "SegformerForSemanticSegmentation" :> "semantic-segmentation"
    @@ "MaskFormerConfig" :> "semantic-segmentation"
    @@ "Mask2FormerConfig" :> "semantic-segmentation"
    @@ "UperNetConfig" :> "semantic-segmentation"
    @@ "OneFormerConfig" :> "semantic-segmentation"
    @@ "DPTConfig" :> "depth-estimation"
    @@ "GLPNConfig" :> "depth-estimation"
    @@ "DepthAnythingConfig" :> "depth-estimation"
    @@ "GPT2Config" :> "text-generation"
    @@ "GPTNeoConfig" :> "text-generation"
    @@ "GPTNeoXConfig" :> "text-generation"
    @@ "GPTJConfig" :> "text-generation"
    @@ "LlamaConfig" :> "text-generation"
    @@ "MistralConfig" :> "text-generation"
    @@ "Phi3Config" :> "text-generation"
    @@ "OPTConfig" :> "text-generation"
    @@ "BloomConfig" :> "text-generation"
    @@ "BertConfig" :> "fill-mask"
    @@ "RobertaConfig" :> "fill-mask"
    @@ "DistilBertConfig" :> "fill-mask"
    @@ "AlbertConfig" :> "fill-mask"
    @@ "ElectraConfig" :> "fill-mask"
    @@ "CamembertConfig" :> "fill-mask"
    @@ "XLMRobertaConfig" :> "fill-mask"
    @@ "DebertaConfig" :> "fill-mask"
    @@ "DebertaV2Config" :> "fill-mask"
    @@ "T5Config" :> "text2text-generation"
    @@ "BartConfig" :> "text2text-generation"
    @@ "MT5Config" :> "text2text-generation"
    @@ "MBartConfig" :> "text2text-generation"
    @@ "PegasusConfig" :> "text2text-generation"
    @@ "XLNetConfig" :> "text-classification"
    @@ "MPNetConfig" :> "feature-extraction"
    @@ "SentenceTransformersConfig" :> "feature-extraction"
    @@ "CLIPConfig" :> "zero-shot-image-classification"
    @@ "CLIPModel" :> "zero-shot-image-classification"
    @@ "CLIPTextConfig" :> "feature-extraction"
    @@ "CLIPVisionConfig" :> "image-classification"
    @@ "BlipConfig" :> "image-to-text"
    @@ "Blip2Config" :> "image-to-text"
    @@ "Wav2Vec2Config" :> "automatic-speech-recognition"
    @@ "WhisperConfig" :> "automatic-speech-recognition"
    @@ "HubertConfig" :> "automatic-speech-recognition"

(***************************************************************************)
(* config.json as the detector sees it.  A JSON value is a record           *)
(*   [t |-> tag, s |-> characters, items |-> elements]                      *)
(* with tag "absent" (key not in the document), "null", "num", "str"        *)
(* (s: its characters), "list" (items: its elements) or "dict" (items: its  *)
(* key/value pairs in document order).  An element is                       *)
(*   [k |-> key characters, t |-> tag, s |-> characters].                   *)
(***************************************************************************)
JAbsent == [t |-> "absent", s |-> <<>>, items |-> <<>>]

JNull == [t |-> "null", s |-> <<>>, items |-> <<>>]

JNum == [t |-> "num", s |-> <<>>, items |-> <<>>]

JStr(chars) == [t |-> "str", s |-> chars, items |-> <<>>]

JList(elems) == [t |-> "list", s |-> <<>>, items |-> elems]

JDict(pairs) == [t |-> "dict", s |-> <<>>, items |-> pairs]

EStr(chars) == [k |-> <<>>, t |-> "str", s |-> chars]

ENull == [k |-> <<>>, t |-> "null", s |-> <<>>]

EList == [k |-> <<>>, t |-> "list", s |-> <<>>]

EPair(key, e) == [k |-> key, t |-> e.t, s |-> e.s]

\* dict.get(key, default) where default is [] , '' or {}
GetOr(v, default) == IF v.t = "absent" THEN default ELSE v

\* The values a Python for-loop draws from an iterable v
IterItems(v) ==
    CASE v.t = "list" -> v.items
      [] v.t = "dict" -> [i \in DOMAIN v.items |-> EStr(v.items[i].k)]
      [] v.t = "str"  -> [i \in DOMAIN v.s |-> EStr(<<v.s[i]>>)]
      [] OTHER        -> <<>>

Iterable(v) == v.t \in {"list", "dict", "str"}

Hashable(e) == e.t \in {"str", "null", "num"}

\* e in TASK_MAPPING, for a hashable e
IsKey(e) == e.t = "str" /\ Join(e.s) \in DOMAIN TASK_MAPPING

\* Outcome of a step of the detector: it returns a task ("ret"), raises
\* ("exc") or falls through to the next step ("next").
Ret(task) == [r |-> "ret", task |-> task]

Exc == [r |-> "exc", task |-> "None"]

Fall == [r |-> "next", task |-> "None"]

\* lines 310-315: for arch in architectures: if arch in TASK_MAPPING: return
RECURSIVE ArchLoop(_)
ArchLoop(elems) ==
    IF elems = <<>> THEN Fall
    ELSE IF ~Hashable(Head(elems)) THEN Exc
    ELSE IF IsKey(Head(elems)) THEN Ret(TASK_MAPPING[Join(Head(elems).s)])
    ELSE ArchLoop(Tail(elems))

ArchStep(config) ==
    LET architectures == GetOr(config.architectures, JList(<<>>))
    IN  IF ~Iterable(architectures) THEN Exc
        ELSE ArchLoop(IterItems(architectures))

\* lines 320-323: the config class name derived from model_type
ConfigClassName(model_type) ==
    IF StrLower(model_type) = <<"c","l","i","p">>
    THEN "CLIPConfig"
    ELSE Join(StrRemove(StrRemove(StrTitle(model_type), "-"), "_")) \o "Config"

\* lines 318-328
ModelTypeStep(config) ==
    LET model_type == GetOr(config.model_type, JStr(<<>>))
    IN  IF model_type.t # "str" THEN Exc
        ELSE IF ConfigClassName(model_type.s) \in DOMAIN TASK_MAPPING
        THEN Ret(TASK_MAPPING[ConfigClassName(model_type.s)])
        ELSE Fall

\* line 334: value.split('.')[-1] if '.' in value else value
ClassNameOf(value) ==
    IF HasCh(value, ".")
    THEN SubSeq(value, LastIndex(value, ".") + 1, Len(value))
    ELSE value

\* lines 332-338: for key, value in auto_map.items()
RECURSIVE AutoMapLoop(_)
AutoMapLoop(pairs) ==
    IF pairs = <<>> THEN Fall
    ELSE IF Head(pairs).t # "str" THEN Exc
    ELSE IF Join(ClassNameOf(Head(pairs).s)) \in DOMAIN TASK_MAPPING
    THEN Ret(TASK_MAPPING[Join(ClassNameOf(Head(pairs).s))])
    ELSE AutoMapLoop(Tail(pairs))

AutoMapStep(config) ==
    LET auto_map == GetOr(config.auto_map, JDict(<<>>))
    IN  IF auto_map.t # "dict" THEN Exc
        ELSE AutoMapLoop(auto_map.items)

\* lines 305-341: the body of the try block
DetectBody(config) ==
    IF config.file \in {"unreadable", "malformed", "notobject"} THEN Exc
    ELSE IF ArchStep(config).r # "next" THEN ArchStep(config)
    ELSE IF ModelTypeStep(config).r # "next" THEN ModelTypeStep(config)
    ELSE IF AutoMapStep(config).r # "next" THEN AutoMapStep(config)
    ELSE Ret("None")

\* The body without its try/except: an exception leaves the function.
DetectUnguarded(outcome) ==
    IF outcome.r = "exc" THEN "raise" ELSE outcome.task

\* What the try/except of lines 305-345 makes of the body's outcome:
\* except Exception returns None.
DetectGuard(outcome) ==
    IF outcome.r = "exc" THEN "None" ELSE outcome.task

\* detect_task_from_config(model_path): a task label, "None", or "raise" if
\* an exception leaves the function.
detect_task_from_config(config) ==
    IF config.file = "absent" THEN "None"
    ELSE DetectGuard(DetectBody(config))

(***************************************************************************)
(* Identifier parsing.                                                     *)
(***************************************************************************)
\* s.split('@')[0]
BeforeFirst(s, c) ==
    IF HasCh(s, c) THEN SubSeq(s, 1, FirstIndex(s, c) - 1) ELSE s

\* s.split('/', 1)[1]
AfterFirst(s, c) == SubSeq(s, FirstIndex(s, c) + 1, Len(s))

\* '/'.join(s.split('/')[:-1]) and s.split('/')[-1]
BeforeLast(s, c) == SubSeq(s, 1, LastIndex(s, c) - 1)

AfterLast(s, c) == SubSeq(s, LastIndex(s, c) + 1, Len(s))

\* The extraction with the leading segment dropped whatever it is, as
\* extract_pytorch_model_id does it.
extract_hf_model_id_AnyPrefix(axon_model_id) ==
    LET stripped == IF HasCh(axon_model_id, "/")
                    THEN SubSeq(axon_model_id, FirstIndex(axon_model_id, "/") + 1,
                                Len(axon_model_id))
                    ELSE axon_model_id
    IN  IF HasCh(stripped, "@") THEN BeforeFirst(stripped, "@") ELSE stripped

extract_hf_model_id(axon_model_id) ==
    LET stripped == IF StartsWith(axon_model_id, <<"h","f","/">>)
                    THEN SubSeq(axon_model_id, 4, Len(axon_model_id))
                    ELSE axon_model_id
    IN  IF HasCh(stripped, "@") THEN BeforeFirst(stripped, "@") ELSE stripped

extract_pytorch_model_id(axon_model_id) ==
    LET model_id == IF HasCh(axon_model_id, "/")
                    THEN AfterFirst(axon_model_id, "/")
                    ELSE axon_model_id
    IN  IF HasCh(model_id, "@") THEN BeforeFirst(model_id, "@") ELSE model_id

\* The arguments of torch.hub.load(repo, model_name), and no call made
HubCall(called, repo, model_name) ==
    [called |-> called, repo |-> repo, model_name |-> model_name]

NoHubCall == HubCall(FALSE, <<>>, <<>>)

\* lines 236-239 of try_pytorch_hub_load: parts = model_id.split('/'),
\* repo = '/'.join(parts[:-1]), model_name = parts[-1]
hub_split(model_id) ==
    HubCall(TRUE, BeforeLast(model_id, "/"), AfterLast(model_id, "/"))

(***************************************************************************)
(* The output directory.  A file is [dir |-> "" or "onnx", name |-> n]:    *)
(* directly in output_dir, or in its onnx/ subdirectory.  The manifest     *)
(* onnx_manifest.json is kept apart, with its content.                     *)
(***************************************************************************)
F(name) == [dir |-> "", name |-> name]

FSub(name) == [dir |-> "onnx", name |-> name]

\* f.endswith('.onnx'), over the file names that occur
OnnxNames ==
    {"model.onnx", "out.onnx", "old.onnx", "text_model.onnx",
     "vision_model.onnx", "encoder_model.onnx", "decoder_model.onnx",
     "decoder_with_past_model.onnx"}

EndsWithOnnx(name) == name \in OnnxNames

\* Python's order of the path strings os.path.join(directory, ...) that occur
PathOrder ==
    <<F("decoder_model.onnx"), F("decoder_with_past_model.onnx"),
      F("encoder_model.onnx"), F("model.onnx"), F("old.onnx"),
      FSub("decoder_model.onnx"), FSub("decoder_with_past_model.onnx"),
      FSub("encoder_model.onnx"), FSub("model.onnx"), FSub("old.onnx"),
      FSub("out.onnx"), FSub("text_model.onnx"), FSub("vision_model.onnx"),
      F("out.onnx"), F("text_model.onnx"), F("vision_model.onnx")>>

RECURSIVE SelectIn(_, _)
SelectIn(order, S) ==
    IF order = <<>> THEN <<>>
    ELSE IF Head(order) \in S THEN <<Head(order)>> \o SelectIn(Tail(order), S)
    ELSE SelectIn(Tail(order), S)

\* sorted(paths)
Sorted(S) == SelectIn(PathOrder, S)

\* convert_common.find_onnx_files: the root and the onnx/ subdirectory
find_onnx_files(fs) ==
    Sorted({p \in fs : EndsWithOnnx(p.name)})

\* convert_huggingface.find_onnx_files: the root only
find_onnx_files_hf(fs) ==
    Sorted({p \in fs : p.dir = "" /\ EndsWithOnnx(p.name)})

\* [os.path.basename(f) for f in onnx_files]
Basenames(paths) == [i \in DOMAIN paths |-> paths[i].name]

InSeq(x, s) == \E i \in DOMAIN s : s[i] = x

ModelRole == <<"model_0", "model_1", "model_2", "model_3", "model_4", "model_5">>

\* The manifest document: components is the role -> file mapping in
\* insertion order, files the list of file names.
Manifest(architecture, encoder_type, task, components, files) ==
    [architecture |-> architecture, encoder_type |-> encoder_type,
     task |-> task, components |-> components, files |-> files]

\* The classification without its first branch: text_model.onnx and
\* vision_model.onnx are not recognised.
ClassifyManifest_NoClip(file_names, task) ==
    IF InSeq("encoder_model.onnx", file_names) /\ InSeq("decoder_model.onnx", file_names)
    THEN Manifest("encoder-decoder", "seq2seq", task,
                  <<<<"encoder", "encoder_model.onnx">>,
                    <<"decoder", "decoder_model.onnx">>>> \o
                  (IF InSeq("decoder_with_past_model.onnx", file_names)
                   THEN <<<<"decoder_with_past", "decoder_with_past_model.onnx">>>>
                   ELSE <<>>),
                  file_names)
    ELSE Manifest("multi-model", "unknown", task,
                  [i \in DOMAIN file_names |-> <<ModelRole[i], file_names[i]>>],
                  file_names)

\* The classification without the test of lines 54-55: the role
\* decoder_with_past is never added.
ClassifyManifest_NoPast(file_names, task) ==
    IF InSeq("text_model.onnx", file_names) /\ InSeq("vision_model.onnx", file_names)
    THEN Manifest("multi-encoder", "clip", task,
                  <<<<"text_encoder", "text_model.onnx">>,
                    <<"vision_encoder", "vision_model.onnx">>>>, file_names)
    ELSE IF InSeq("encoder_model.onnx", file_names) /\ InSeq("decoder_model.onnx", file_names)
    THEN Manifest("encoder-decoder", "seq2seq", task,
                  <<<<"encoder", "encoder_model.onnx">>,
                    <<"decoder", "decoder_model.onnx">>>>, file_names)
    ELSE Manifest("multi-model", "unknown", task,
                  [i \in DOMAIN file_names |-> <<ModelRole[i], file_names[i]>>],
                  file_names)

\* The classification shared by the copies of write_multi_encoder_manifest
ClassifyManifest(file_names, task) ==
    IF InSeq("text_model.onnx", file_names) /\ InSeq("vision_model.onnx", file_names)
    THEN Manifest("multi-encoder", "clip", task,
                  <<<<"text_encoder", "text_model.onnx">>,
                    <<"vision_encoder", "vision_model.onnx">>>>, file_names)
    ELSE IF InSeq("encoder_model.onnx", file_names) /\ InSeq("decoder_model.onnx", file_names)
    THEN Manifest("encoder-decoder", "seq2seq", task,
                  <<<<"encoder", "encoder_model.onnx">>,
                    <<"decoder", "decoder_model.onnx">>>> \o
                  (IF InSeq("decoder_with_past_model.onnx", file_names)
                   THEN <<<<"decoder_with_past", "decoder_with_past_model.onnx">>>>
                   ELSE <<>>),
                  file_names)
    ELSE Manifest("multi-model", "unknown", task,
                  [i \in DOMAIN file_names |-> <<ModelRole[i], file_names[i]>>],
                  file_names)

\* convert_common.write_multi_encoder_manifest: task or 'unknown'
write_multi_encoder_manifest(onnx_files, task) ==
    ClassifyManifest(Basenames(onnx_files),
                     IF task \in {"None", ""} THEN "unknown" ELSE task)

\* convert_huggingface.write_multi_encoder_manifest: task as given
write_multi_encoder_manifest_hf(onnx_files, task) ==
    ClassifyManifest(Basenames(onnx_files), task)

NoManifest == Manifest("none", "none", "none", <<>>, <<>>)

\* open(manifest_path, 'x'): an existing manifest is kept as it is
StoreManifest_Exclusive(existing, doc) ==
    IF existing = NoManifest THEN doc ELSE existing

\* open(manifest_path, 'w') and json.dump: the file holds the new document
\* whatever it held
StoreManifest(existing, doc) == doc

\* json.dump(manifest, f, indent=2): the members in the insertion order of
\* the dict literal, the components in the order they were inserted
json_dump(doc) ==
    <<<<"architecture", doc.architecture>>,
      <<"encoder_type", doc.encoder_type>>,
      <<"task", doc.task>>,
      <<"components", doc.components>>,
      <<"files", doc.files>>>>

\* one call of write_multi_encoder_manifest: which copy, its arguments, and
\* the file content it left
Write(copy, onnx_files, t, content) ==
    [copy |-> copy, onnx_files |-> onnx_files, task |-> t, content |-> content]

\* the calls made so far, after an Optimum attempt that reported r: it
\* wrote the manifest if it succeeded with more than one file in onnx_files
RecordWrite(calls, copy, r, onnx_files, t) ==
    IF r.ok /\ Len(onnx_files) > 1
    THEN Append(calls, Write(copy, onnx_files, t, json_dump(r.manifest)))
    ELSE calls

(***************************************************************************)
(* Inputs of an invocation.                                                *)
(***************************************************************************)
\* "hf/distilgpt2@latest"
Id_hf_distilgpt2 ==
    <<"h","f","/","d","i","s","t","i","l","g","p","t","2","@","l","a","t","e","s","t">>

\* "openai/clip-vit"
Id_clip_vit ==
    <<"o","p","e","n","a","i","/","c","l","i","p","-","v","i","t">>

\* "laion/CLIP-ViT"
Id_laion_CLIP ==
    <<"l","a","i","o","n","/","C","L","I","P","-","V","i","T">>

\* "pytorch/resnet50@latest"
Id_pt_resnet50 ==
    <<"p","y","t","o","r","c","h","/","r","e","s","n","e","t","5","0","@","l","a","t","e","s","t">>

\* "pytorch/vision:v0.10.0/resnet50"
Id_pt_vision_resnet50 ==
    <<"p","y","t","o","r","c","h","/","v","i","s","i","o","n",":","v","0",".","1","0",".","0","/","r","e","s","n","e","t","5","0">>

\* "pytorch/openai/clip-vit"
Id_pt_clip ==
    <<"p","y","t","o","r","c","h","/","o","p","e","n","a","i","/","c","l","i","p","-","v","i","t">>

\* "tfhub/model@1"
Id_tfhub_model ==
    <<"t","f","h","u","b","/","m","o","d","e","l","@","1">>

HFIds == {Id_hf_distilgpt2, Id_clip_vit, Id_laion_CLIP}

PTIds == {Id_pt_resnet50, Id_pt_vision_resnet50, Id_pt_clip}

\* len(sys.argv): the script name and the arguments
ArgCounts == {3, 4}

\* the basename of output_path: the usual one, another .onnx name, and a
\* name that does not end in .onnx
OutNames == {"model.onnx", "out.onnx", "model.bin"}

\* files an earlier run or an earlier use of the directory may have left:
\* one at output_path, one under another name
StaleFiles(name) == {F(name), F("old.onnx")}

\* how many of them the output directory holds when an invocation starts
MaxStale == 1

\* how many of the libraries are not installed
MaxMissing == 1

StaleSets(name) == {S \in SUBSET StaleFiles(name) : Cardinality(S) <= MaxStale}

HFLibraries == {"torch", "optimum", "transformers"}

PTLibraries == {"torch", "optimum", "torchvision"}

MissingSets(libs) == {S \in SUBSET libs : Cardinality(S) <= MaxMissing}

\* The value of an attribute of the loaded model or of its config: not
\* there, an integer, or a list / tuple of integers.
PAbsent == [t |-> "absent", v |-> 0, items |-> <<>>]

PInt(v) == [t |-> "int", v |-> v, items |-> <<>>]

PList(items) == [t |-> "list", v |-> 0, items |-> items]

\* config.vision_config: not there, a dict (with or without image_size), or
\* a config object, which has no get method
VisionConfig(kind, image_size) == [kind |-> kind, image_size |-> image_size]

NoVisionConfig == VisionConfig("absent", PAbsent)

\* The attributes create_dummy_input reads: of model.config (image_size,
\* img_size, sample_size, max_position_embeddings, vocab_size,
\* vision_config), and of a PyTorch model (has it a config, its vocab_size,
\* the model itself for detect_model_type).
Params(image_size, img_size, sample_size, max_pos, vocab_size, vision_config, has_config, model_vocab_size, model) ==
    [image_size |-> image_size, img_size |-> img_size, sample_size |-> sample_size,
     max_position_embeddings |-> max_pos, vocab_size |-> vocab_size,
     vision_config |-> vision_config, has_config |-> has_config,
     model_vocab_size |-> model_vocab_size, model |-> model]

\* a model that declares none of them
DefaultParams ==
    Params(PAbsent, PAbsent, PAbsent, PAbsent, PAbsent, NoVisionConfig, FALSE,
           PAbsent, "none")

Cfg(file, architectures, model_type, auto_map) ==
    [file |-> file, architectures |-> architectures,
     model_type |-> model_type, auto_map |-> auto_map]

NoConfig == Cfg("absent", JAbsent, JAbsent, JAbsent)

\* the config.json documents of the chain runs: none, not parseable, an
\* architecture of the registry, a model_type of the registry, no match
ChainConfigs ==
    {NoConfig,
     Cfg("malformed", JAbsent, JAbsent, JAbsent),
     Cfg("object", JList(<<EStr(<<"V","i","T","F","o","r","I","m","a","g","e","C","l","a","s","s","i","f","i","c","a","t","i","o","n">>)>>), JAbsent, JAbsent),
     Cfg("object", JNull, JStr(<<"b","e","r","t">>), JAbsent),
     Cfg("object", JAbsent, JStr(<<"c","l","i","p">>), JAbsent),
     Cfg("object", JList(<<EStr(<<"G","P","T","2","L","M","H","e","a","d","M","o","d","e","l">>)>>), JStr(<<"g","p","t","2">>), JAbsent)}

(***************************************************************************)
(* State.                                                                  *)
(***************************************************************************)
VARIABLES
    conv,       \* which converter script runs: "hf", "pytorch", "tf"
    argc,       \* len(sys.argv)
    missing,    \* the libraries that are not installed
    modelPath,  \* model_path: [kind |-> "missing" | "file" | "dir", name |-> basename]
    outName,    \* basename of output_path; output_dir is its directory
    axonId,     \* the model identifier argument
    modelId,    \* hf_model_id / model_id: the identifier extracted from it
    config,     \* config.json under model_path
    fs,         \* files of the output directory
    manifest,   \* content of onnx_manifest.json, NoManifest if there is none
    pc,         \* position of the process
    status,     \* exit status, -1 while the process runs
    hist,       \* the attempts in the order they were invoked
    detected,   \* detected_task of convert_huggingface_to_onnx
    task,       \* task returned by load_model_and_tokenizer
    dummy,      \* kind of the synthesized input: "tensor", "dict", "none"
    loadTries,  \* from_pretrained calls made by load_model_and_tokenizer
    strategies, \* the strategies list of convert_pytorch_to_onnx
    optTask,    \* task the last Optimum export was called with
    attrs,      \* the attributes the loaded model and its config declare
    modelClass, \* class name returned by get_model_class
    synth,      \* the results of the create_dummy_input calls made so far
    hub,        \* repo and model_name of the last torch.hub.load call
    written,    \* the write_multi_encoder_manifest calls made so far
    log         \* the diagnostics printed so far, in order

vars == <<conv, argc, missing, modelPath, outName, axonId, modelId, config, fs,
          manifest, pc, status, hist, detected, task, dummy, loadTries, strategies,
          optTask, attrs, modelClass, synth, hub, written, log>>

inputs == <<conv, argc, missing, modelPath, outName, axonId, config, attrs>>

\* what only the loading and input synthesis steps write
synthVars == <<modelClass, synth>>

\* One attempt: the strategy, what it reported, whether its exporter was
\* called, the files that call wrote, and whether it was invoked from inside
\* another strategy.
Attempt(name, ok, called, fresh, nested) ==
    [name |-> name, ok |-> ok, called |-> called, fresh |-> fresh, nested |-> nested]

output_path == F(outName)

\* os.rename that leaves the source in place, as a copy would
Rename_KeepSource(files, src, dst) == files \cup {dst}

\* os.rename(src, dst)
Rename(files, src, dst) == (files \ {src}) \cup {dst}

(***************************************************************************)
(* External calls: what the export libraries may do.                       *)
(***************************************************************************)
\* optimum main_export(output=output_dir): raises (possibly after writing a
\* part of its output) or returns having written a set of files.
ExportOut(raised, wrote) == [raised |-> raised, wrote |-> wrote]

MainExportOutcomes ==
    {ExportOut(TRUE, {}),
     ExportOut(TRUE, {F("encoder_model.onnx")}),
     ExportOut(FALSE, {}),
     ExportOut(FALSE, {F("model.onnx")}),
     ExportOut(FALSE, {F("text_model.onnx"), F("vision_model.onnx")}),
     ExportOut(FALSE, {F("encoder_model.onnx"), F("decoder_model.onnx")}),
     ExportOut(FALSE, {F("encoder_model.onnx"), F("decoder_model.onnx"),
                       F("decoder_with_past_model.onnx")}),
     ExportOut(FALSE, {FSub("text_model.onnx"), FSub("vision_model.onnx")})}

\* torch.onnx.export(model, input, output_path): raises (possibly after
\* creating the file) or returns, with or without having written output_path.
TorchExportOutcomes(name) ==
    {ExportOut(TRUE, {}), ExportOut(TRUE, {F(name)}),
     ExportOut(FALSE, {}), ExportOut(FALSE, {F(name)})}

(***************************************************************************)
(* Hugging Face converter.                                                 *)
(***************************************************************************)
MultiModalTasks == {"zero-shot-image-classification", "image-to-text", "image-text-to-text"}

\* The task resolution with the keyword looked for in the identifier as
\* written, without hf_model_id.lower().
OptimumTask_CaseSensitive(t, cfg, hf_model_id) ==
    IF t \in {"None", "auto"}
    THEN IF detect_task_from_config(cfg) # "None"
         THEN detect_task_from_config(cfg)
         ELSE IF Contains(hf_model_id, <<"c","l","i","p">>)
         THEN "zero-shot-image-classification"
         ELSE "auto"
    ELSE t

\* lines 375-387 of try_optimum_export: the task handed to main_export
OptimumTask(t, cfg, hf_model_id) ==
    IF t \in {"None", "auto"}
    THEN IF detect_task_from_config(cfg) # "None"
         THEN detect_task_from_config(cfg)
         ELSE IF Contains(StrLower(hf_model_id), <<"c","l","i","p">>)
         THEN "zero-shot-image-classification"
         ELSE "auto"
    ELSE t

\* lines 428-440: a single file is moved to output_path
MoveSingle(files, created, name) ==
    IF created = F(name) THEN files
    ELSE IF created.name # "model.onnx"
    THEN IF F("model.onnx") # F(name)
         THEN Rename(Rename(files, created, F("model.onnx")), F("model.onnx"), F(name))
         ELSE Rename(files, created, F("model.onnx"))
    ELSE Rename(files, created, F(name))

\* What one attempt leaves: its report, the directory, the manifest.
Outcome(ok, files, mf, called, fresh) ==
    [ok |-> ok, fs |-> files, manifest |-> mf, called |-> called, fresh |-> fresh]

\* try_optimum_export(model_path, output_path, hf_model_id, task) for the
\* outcome o of main_export
try_optimum_export(files, mf, libs, t, cfg, hf_model_id, name, o) ==
    IF "optimum" \in libs THEN Outcome(FALSE, files, mf, FALSE, {})
    ELSE IF detect_task_from_config(cfg) = "raise" /\ t \in {"None", "auto"}
    THEN Outcome(FALSE, files, mf, FALSE, {})
    ELSE
      LET after == files \cup o.wrote
          onnx_files == find_onnx_files_hf(after)
      IN  IF o.raised THEN Outcome(FALSE, after, mf, TRUE, o.wrote)
          ELSE IF Len(onnx_files) = 0 THEN Outcome(FALSE, after, mf, TRUE, o.wrote)
          ELSE IF Len(onnx_files) > 1
          THEN Outcome(TRUE, after,
                       StoreManifest(mf, write_multi_encoder_manifest_hf(onnx_files,
                                             OptimumTask(t, cfg, hf_model_id))),
                       TRUE, o.wrote)
          ELSE Outcome(TRUE, MoveSingle(after, onnx_files[1], name), mf, TRUE, o.wrote)

HFVisionTasks ==
    {"image-classification", "object-detection", "semantic-segmentation",
     "depth-estimation", "image-to-text"}

\* create_dummy_input(model, task, processor): the kind of input it returns
create_dummy_input_kind(t) ==
    IF t \in HFVisionTasks THEN "tensor"
    ELSE IF t = "zero-shot-image-classification" THEN "dict"
    ELSE "tensor"

\* try_torch_export without the os.path.exists test of line 738: a call that
\* returns counts as a success.
try_torch_export_unchecked(files, mf, name, o) ==
    LET after == files \cup o.wrote
    IN  Outcome(~o.raised, after, mf, TRUE, o.wrote)

\* try_torch_export for the outcome o of torch.onnx.export
try_torch_export(files, mf, name, o) ==
    LET after == files \cup o.wrote
    IN  IF o.raised THEN Outcome(FALSE, after, mf, TRUE, o.wrote)
        ELSE Outcome(F(name) \in after, after, mf, TRUE, o.wrote)

\* try_torch_jit_trace for the outcome o of torch.jit.trace + torch.onnx.export
try_torch_jit_trace(files, mf, kind, name, o) ==
    IF kind = "dict" THEN Outcome(FALSE, files, mf, FALSE, {})
    ELSE try_torch_export(files, mf, name, o)

\* What an attempt that reported ok prints about its failure: the
\* diagnostic of the strategy if one of its print statements for a failure
\* ran, nothing if it returned False without one.
Diagnostic(name, ok, printed) ==
    IF ~ok /\ printed THEN <<name>> ELSE <<>>

\* 'ERROR: All conversion strategies failed' after the strategies loop
AllFailed(exhausted) ==
    IF exhausted THEN <<"all_failed">> ELSE <<>>

\* sys.exit(0 if success else 1)
Exit(success) ==
    /\ status' = IF success THEN 0 ELSE 1
    /\ pc' = "exited"

Record(name, r, nested) == Attempt(name, r.ok, r.called, r.fresh, nested)

\* lines 844-851: the argument count
HFMain ==
    /\ conv = "hf" /\ pc = "main"
    /\ IF argc # 4 THEN Exit(FALSE) ELSE pc' = "hf_begin" /\ status' = status
    /\ log' = IF argc # 4 THEN Append(log, "usage") ELSE log
    /\ UNCHANGED <<inputs, synthVars, hub, written, modelId, fs, manifest, hist, detected, task, dummy,
                   loadTries, strategies, optTask>>

\* lines 793-805: import torch, the identifier, the task
HFBegin ==
    /\ conv = "hf" /\ pc = "hf_begin"
    /\ log' = IF "torch" \in missing THEN Append(log, "missing_dependency")
               ELSE IF detect_task_from_config(config) = "raise"
               THEN Append(log, "error")
               ELSE log
    /\ IF "torch" \in missing
       THEN Exit(FALSE) /\ UNCHANGED <<modelId, detected>>
       ELSE /\ modelId' = extract_hf_model_id(axonId)
            /\ IF detect_task_from_config(config) = "raise"
               THEN Exit(FALSE) /\ detected' = detected
               ELSE /\ detected' = detect_task_from_config(config)
                    /\ pc' = "hf_optimum"
                    /\ status' = status
    /\ UNCHANGED <<inputs, synthVars, hub, written, fs, manifest, hist, task, dummy, loadTries, strategies, optTask>>

\* Strategy 1 without the return of line 809: the model is loaded and the
\* other strategies are tried whatever the Optimum export reported.
HFOptimum_NoReturn ==
    /\ conv = "hf" /\ pc = "hf_optimum"
    /\ \E o \in MainExportOutcomes :
         LET r == try_optimum_export(fs, manifest, missing, detected, config,
                                     modelId, outName, o)
         IN  /\ fs' = r.fs
             /\ manifest' = r.manifest
             /\ hist' = Append(hist, Record("optimum", r, FALSE))
             /\ log' = log \o Diagnostic("optimum", r.ok, TRUE)
             /\ optTask' = IF r.called
                           THEN OptimumTask(detected, config, modelId)
                           ELSE optTask
             /\ written' = RecordWrite(written, "hf", r, find_onnx_files_hf(r.fs),
                                       OptimumTask(detected, config, modelId))
             /\ pc' = "hf_load" /\ status' = status
    /\ UNCHANGED <<inputs, synthVars, hub, modelId, detected, task, dummy, loadTries, strategies>>

\* lines 807-809: Strategy 1
HFOptimum ==
    /\ conv = "hf" /\ pc = "hf_optimum"
    /\ \E o \in MainExportOutcomes :
         LET r == try_optimum_export(fs, manifest, missing, detected, config,
                                     modelId, outName, o)
         IN  /\ fs' = r.fs
             /\ manifest' = r.manifest
             /\ hist' = Append(hist, Record("optimum", r, FALSE))
             /\ log' = log \o Diagnostic("optimum", r.ok, TRUE)
             /\ optTask' = IF r.called
                           THEN OptimumTask(detected, config, modelId)
                           ELSE optTask
             /\ written' = RecordWrite(written, "hf", r, find_onnx_files_hf(r.fs),
                                       OptimumTask(detected, config, modelId))
             /\ IF r.ok THEN Exit(TRUE) ELSE pc' = "hf_load" /\ status' = status
    /\ UNCHANGED <<inputs, synthVars, hub, modelId, detected, task, dummy, loadTries, strategies>>

\* the load configurations of load_model_and_tokenizer (lines 541-546)
NLoadConfigs == 4

\* lines 572-596: AutoTokenizer / AutoImageProcessor.from_pretrained is
\* called once a model is loaded (k > 0), and returns or raises
ProcessorOutcomes(k) ==
    IF k = 0 THEN {"not called"} ELSE {"loaded", "raised"}

\* load_model_and_tokenizer with a detector that gives a default label when
\* it is asked a second time about a config it found no task in.
HFLoad_Redetect ==
    /\ conv = "hf" /\ pc = "hf_load"
    /\ IF "transformers" \in missing
       THEN /\ Exit(FALSE)
            /\ log' = Append(log, "missing_dependency")
            /\ UNCHANGED <<task, dummy, loadTries>>
       ELSE \E k \in 0 .. NLoadConfigs : \E processor \in ProcessorOutcomes(k) :
              /\ loadTries' = IF k = 0 THEN NLoadConfigs ELSE k
              /\ task' = IF detected = "None"
                         THEN "feature-extraction" ELSE detected
              /\ log' = IF k = 0 THEN Append(log, "error")
                        ELSE IF processor = "raised" THEN Append(log, "processor")
                        ELSE log
              /\ IF k = 0
                 THEN Exit(FALSE) /\ dummy' = dummy
                 ELSE /\ dummy' = create_dummy_input_kind(task')
                      /\ pc' = "hf_torch_export"
                      /\ status' = status
    /\ UNCHANGED <<inputs, synthVars, hub, written, modelId, fs, manifest, hist, detected, strategies, optTask>>

\* load_model_and_tokenizer that raises at the first configuration that
\* fails, without trying the others.
HFLoad_NoFallback ==
    /\ conv = "hf" /\ pc = "hf_load"
    /\ IF "transformers" \in missing
       THEN /\ Exit(FALSE)
            /\ log' = Append(log, "missing_dependency")
            /\ UNCHANGED <<task, dummy, loadTries>>
       ELSE \E k \in 0 .. NLoadConfigs : \E processor \in ProcessorOutcomes(k) :
              /\ loadTries' = IF k = 0 THEN 1 ELSE k
              /\ task' = IF detected = "None"
                         THEN detect_task_from_config(config) ELSE detected
              /\ log' = IF k = 0 THEN Append(log, "error")
                        ELSE IF processor = "raised" THEN Append(log, "processor")
                        ELSE log
              /\ IF k = 0
                 THEN Exit(FALSE) /\ dummy' = dummy
                 ELSE /\ dummy' = create_dummy_input_kind(task')
                      /\ pc' = "hf_torch_export"
                      /\ status' = status
    /\ UNCHANGED <<inputs, synthVars, hub, written, modelId, fs, manifest, hist, detected, strategies, optTask>>

\* lines 811-817: load_model_and_tokenizer, then create_dummy_input.  The
\* loader is called until a configuration loads (k-th call) or all have
\* failed (k = 0), which raises RuntimeError.
HFLoad ==
    /\ conv = "hf" /\ pc = "hf_load"
    /\ IF "transformers" \in missing
       THEN /\ Exit(FALSE)
            /\ log' = Append(log, "missing_dependency")
            /\ UNCHANGED <<task, dummy, loadTries>>
       ELSE \E k \in 0 .. NLoadConfigs : \E processor \in ProcessorOutcomes(k) :
              /\ loadTries' = IF k = 0 THEN NLoadConfigs ELSE k
              /\ task' = IF detected = "None"
                         THEN detect_task_from_config(config) ELSE detected
              /\ log' = IF k = 0 THEN Append(log, "error")
                        ELSE IF processor = "raised" THEN Append(log, "processor")
                        ELSE log
              /\ IF k = 0
                 THEN Exit(FALSE) /\ dummy' = dummy
                 ELSE /\ dummy' = create_dummy_input_kind(task')
                      /\ pc' = "hf_torch_export"
                      /\ status' = status
    /\ UNCHANGED <<inputs, synthVars, hub, written, modelId, fs, manifest, hist, detected, strategies, optTask>>

\* Strategy 2 in a loop that does not return on success: the chain goes on to
\* Strategy 3 whatever Strategy 2 reported.
HFTorchExport_NoReturn ==
    /\ conv = "hf" /\ pc = "hf_torch_export"
    /\ \E o \in TorchExportOutcomes(outName) :
         LET r == try_torch_export(fs, manifest, outName, o)
         IN  /\ fs' = r.fs
             /\ hist' = Append(hist, Record("torch_export", r, FALSE))
             /\ log' = log \o Diagnostic("torch_export", r.ok, o.raised)
             /\ pc' = "hf_jit_trace" /\ status' = status
    /\ UNCHANGED <<inputs, synthVars, hub, written, modelId, manifest, detected, task, dummy, loadTries,
                   strategies, optTask>>

\* lines 821, 825-827: Strategy 2
HFTorchExport ==
    /\ conv = "hf" /\ pc = "hf_torch_export"
    /\ \E o \in TorchExportOutcomes(outName) :
         LET r == try_torch_export(fs, manifest, outName, o)
         IN  /\ fs' = r.fs
             /\ hist' = Append(hist, Record("torch_export", r, FALSE))
             /\ log' = log \o Diagnostic("torch_export", r.ok, o.raised)
             /\ IF r.ok THEN Exit(TRUE) ELSE pc' = "hf_jit_trace" /\ status' = status
    /\ UNCHANGED <<inputs, synthVars, hub, written, modelId, manifest, detected, task, dummy, loadTries,
                   strategies, optTask>>

\* lines 822, 825-831: Strategy 3, then the chain is exhausted
HFJitTrace ==
    /\ conv = "hf" /\ pc = "hf_jit_trace"
    /\ \E o \in TorchExportOutcomes(outName) :
         LET r == try_torch_jit_trace(fs, manifest, dummy, outName, o)
         IN  /\ fs' = r.fs
             /\ hist' = Append(hist, Record("jit_trace", r, FALSE))
             /\ log' = log \o Diagnostic("jit_trace", r.ok, dummy = "dict" \/ o.raised)
                            \o AllFailed(~r.ok)
             /\ Exit(r.ok)
    /\ UNCHANGED <<inputs, synthVars, hub, written, modelId, manifest, detected, task, dummy, loadTries,
                   strategies, optTask>>

(***************************************************************************)
(* PyTorch converter.                                                      *)
(***************************************************************************)
\* A loaded model: its class name and the parameter names of forward.
Model(cls, params) == [cls |-> cls, params |-> params]

ResNetModel == Model(<<"R","e","s","N","e","t">>, <<<<"x">>>>)

ClipModel == Model(<<"C","L","I","P","M","o","d","e","l">>, <<<<"i","n","p","u","t","_","i","d","s">>, <<"p","i","x","e","l","_","v","a","l","u","e","s">>>>)

TokenNet == Model(<<"N","e","t">>, <<<<"i","n","p","u","t","_","i","d","s">>, <<"a","t","t","e","n","t","i","o","n","_","m","a","s","k">>>>)

\* a model whose class and forward signature tell nothing
PlainNet == Model(<<"N","e","t">>, <<<<"f","e","a","t","u","r","e","s">>>>)

LoadedModels == {ResNetModel, ClipModel, TokenNet, PlainNet}

\* model_path of the PyTorch converter: nothing, a directory, a file
PTModelPaths ==
    {[kind |-> "missing", name |-> <<"m","o","d","e","l",".","p","t">>],
     [kind |-> "dir", name |-> <<"m","o","d","e","l">>],
     [kind |-> "file", name |-> <<"m","o","d","e","l",".","p","t">>],
     [kind |-> "file", name |-> <<"c","l","i","p",".","p","t">>]}

vision_indicators ==
    <<<<"r","e","s","n","e","t">>,
        <<"v","g","g">>,
        <<"a","l","e","x","n","e","t">>,
        <<"d","e","n","s","e","n","e","t">>,
        <<"m","o","b","i","l","e","n","e","t">>,
        <<"e","f","f","i","c","i","e","n","t","n","e","t">>,
        <<"v","i","t">>,
        <<"d","e","i","t">>,
        <<"c","o","n","v","n","e","x","t">>,
        <<"s","w","i","n">>,
        <<"r","e","g","n","e","t">>,
        <<"e","f","f","i","c","i","e","n","t","n","e","t">>,
        <<"m","n","a","s","n","e","t">>,
        <<"s","h","u","f","f","l","e","n","e","t">>>>

nlp_indicators ==
    <<<<"b","e","r","t">>,
        <<"g","p","t">>,
        <<"t","r","a","n","s","f","o","r","m","e","r">>,
        <<"l","s","t","m">>,
        <<"r","n","n">>,
        <<"r","o","b","e","r","t","a">>,
        <<"d","i","s","t","i","l","b","e","r","t">>,
        <<"a","l","b","e","r","t">>,
        <<"e","l","e","c","t","r","a">>,
        <<"x","l","n","e","t">>,
        <<"t","5">>,
        <<"b","a","r","t">>>>

AnyIn(indicators, s) == \E i \in DOMAIN indicators : Contains(s, indicators[i])

SingleTensorParams == {<<"x">>, <<"i","n","p","u","t">>, <<"i","m","g">>, <<"i","m","a","g","e">>}

\* detect_model_type(model, model_name): <<model_type, task>>
detect_model_type(model, model_name) ==
    LET class_name == StrLower(model.cls)
    IN  IF Contains(class_name, <<"c","l","i","p">>) \/ Contains(StrLower(model_name), <<"c","l","i","p">>)
        THEN <<"multimodal", "zero-shot-image-classification">>
        ELSE IF AnyIn(vision_indicators, class_name)
        THEN <<"vision", "image-classification">>
        ELSE IF AnyIn(nlp_indicators, class_name)
        THEN IF Contains(class_name, <<"g","p","t">>) \/ Contains(class_name, <<"c","a","u","s","a","l">>)
             THEN <<"nlp", "text-generation">>
             ELSE IF Contains(class_name, <<"b","e","r","t">>) \/ Contains(class_name, <<"r","o","b","e","r","t","a">>)
             THEN <<"nlp", "fill-mask">>
             ELSE IF Contains(class_name, <<"t","5">>) \/ Contains(class_name, <<"b","a","r","t">>)
             THEN <<"nlp", "text2text-generation">>
             ELSE <<"nlp", "feature-extraction">>
        ELSE IF Len(model.params) = 1 /\ model.params[1] \in SingleTensorParams
        THEN <<"vision", "image-classification">>
        ELSE IF \E i \in DOMAIN model.params :
                   \/ Contains(model.params[i], <<"t","o","k","e","n">>)
                   \/ Contains(model.params[i], <<"i","n","p","u","t","_","i","d","s">>)
                   \/ Contains(model.params[i], <<"a","t","t","e","n","t","i","o","n">>)
        THEN <<"nlp", "feature-extraction">>
        ELSE <<"unknown", "unknown">>

\* the names detect_model_type is called with: the last segment of the
\* identifier, the basename of model_path
ModelNames ==
    {AfterLast(extract_pytorch_model_id(i), "/") : i \in PTIds}
    \cup {p.name : p \in PTModelPaths}

\* detect_model_type over the models and names of the runs, evaluated once
ModelTypeOf == [m \in LoadedModels, n \in ModelNames |-> detect_model_type(m, n)]

\* create_dummy_input(model, model_type, task) of convert_pytorch.py: the
\* kind of input it returns
create_dummy_input_kind_pt(mt) ==
    IF mt[1] = "vision" \/ mt[2] = "image-classification" THEN "tensor"
    ELSE IF mt[1] = "nlp" THEN "tensor"
    ELSE IF mt[1] = "multimodal" \/ mt[2] = "zero-shot-image-classification" THEN "dict"
    ELSE "tensor"

\* line 185: is the Optimum export tried for this identifier
OptimumApplies(model_id) ==
    /\ HasCh(model_id, "/")
    /\ \/ ~Contains(StrLower(model_id), <<"p","y","t","o","r","c","h">>)
       \/ Contains(StrLower(model_id), <<"v","i","s","i","o","n">>)

\* the identifiers convert_pytorch_to_onnx extracts in the runs
PTModelIds == {extract_pytorch_model_id(i) : i \in PTIds}

\* OptimumApplies and the hub model name (parts[-1], line 239) over these
\* identifiers, evaluated once
OptimumAppliesTo == [i \in PTModelIds |-> OptimumApplies(i)]

HubModelName == [i \in PTModelIds |-> AfterLast(i, "/")]

HasSlash == [i \in PTModelIds |-> HasCh(i, "/")]

HubSplitOf == [i \in PTModelIds |-> hub_split(i)]

\* hasattr(torchvision.models, model_id)
TorchvisionNames == {"resnet50"}

InTorchvision == [i \in PTModelIds |-> Join(i) \in TorchvisionNames]

\* try_optimum_export_pytorch(model_path, output_path, model_id) for the
\* outcome o of main_export
try_optimum_export_pytorch(files, mf, libs, model_id, name, o) ==
    IF "optimum" \in libs THEN Outcome(FALSE, files, mf, FALSE, {})
    ELSE IF ~OptimumAppliesTo[model_id] THEN Outcome(FALSE, files, mf, FALSE, {})
    ELSE
      LET after == files \cup o.wrote
          onnx_files == find_onnx_files(after)
      IN  IF o.raised THEN Outcome(FALSE, after, mf, TRUE, o.wrote)
          ELSE IF Len(onnx_files) = 0 THEN Outcome(FALSE, after, mf, TRUE, o.wrote)
          ELSE IF Len(onnx_files) > 1
          THEN Outcome(TRUE, after,
                       StoreManifest(mf, write_multi_encoder_manifest(onnx_files, "auto")),
                       TRUE, o.wrote)
          ELSE Outcome(TRUE,
                       IF onnx_files[1] # F(name)
                       THEN Rename(after, onnx_files[1], F(name)) ELSE after,
                       mf, TRUE, o.wrote)

\* lines 453-460: is the success of Strategy 0 taken as the result
Strategy0Accepted(files, name) ==
    \/ Len(find_onnx_files(files)) > 1
    \/ Len(find_onnx_files(files)) = 1 /\ F(name) \in files

\* lines 463-473: the strategies list
StrategyList(path) ==
    IF path.kind = "file"
    THEN <<"torchscript", "state_dict", "hub", "torchvision">>
    ELSE <<"hub", "torchvision">>

\* torch.hub.load / torch.jit.load: raises or returns a model
LoadOut(raised, model) == [raised |-> raised, model |-> model]

LoadOutcomes ==
    {LoadOut(TRUE, ResNetModel)} \cup {LoadOut(FALSE, m) : m \in LoadedModels}

\* torch.load(model_path): raises, or returns a module, a dict with the key
\* 'model', a dict with 'state_dict', or something else
Checkpoint(form, model) == [form |-> form, model |-> model]

CheckpointOutcomes ==
    {Checkpoint("raise", ResNetModel), Checkpoint("state_dict", ResNetModel),
     Checkpoint("other", ResNetModel)}
    \cup {Checkpoint("module", m) : m \in LoadedModels}
    \cup {Checkpoint("dict_model", m) : m \in LoadedModels}

\* the shared tail of the load strategies: synthesize the input, refuse a
\* dict input, else torch.onnx.export and the existence check
ExportLoaded(files, mf, model, model_name, name, e) ==
    IF create_dummy_input_kind_pt(ModelTypeOf[model, model_name]) = "dict"
    THEN Outcome(FALSE, files, mf, FALSE, {})
    ELSE try_torch_export(files, mf, name, e)

\* try_load_torch_script(model_path, output_path)
try_load_torch_script(files, mf, path, name, l, e) ==
    IF l.raised THEN Outcome(FALSE, files, mf, FALSE, {})
    ELSE ExportLoaded(files, mf, l.model, path.name, name, e)

\* try_load_state_dict(model_path, output_path)
try_load_state_dict(files, mf, path, name, c, e) ==
    IF c.form \in {"module", "dict_model"}
    THEN ExportLoaded(files, mf, c.model, path.name, name, e)
    ELSE Outcome(FALSE, files, mf, FALSE, {})

\* try_torchvision_model(model_id, output_path); built: the model constructor
\* returned
try_torchvision_model(files, mf, libs, model_id, name, built, e) ==
    IF "torchvision" \in libs THEN Outcome(FALSE, files, mf, FALSE, {})
    ELSE IF ~InTorchvision[model_id] THEN Outcome(FALSE, files, mf, FALSE, {})
    ELSE IF ~built THEN Outcome(FALSE, files, mf, FALSE, {})
    ELSE try_torch_export(files, mf, name, e)

\* Does try_pytorch_hub_load call try_optimum_export_pytorch (lines 253-258)
HubCallsOptimum(model_id, h) ==
    /\ HasSlash[model_id]
    /\ ~h.raised
    /\ ModelTypeOf[h.model, HubModelName[model_id]][1] = "multimodal"
    /\ create_dummy_input_kind_pt(ModelTypeOf[h.model, HubModelName[model_id]]) = "dict"

\* The outcomes of the calls try_pytorch_hub_load makes after torch.hub.load
\* gave h: main_export is called only through try_optimum_export_pytorch
\* (line 258), torch.onnx.export only for a single-tensor input (line 268);
\* a call that is not made has the one outcome of writing nothing.
HubExportOutcomes(model_id, h) ==
    IF HubCallsOptimum(model_id, h) THEN MainExportOutcomes
    ELSE {ExportOut(FALSE, {})}

HubTorchOutcomes(model_id, h, name) ==
    IF /\ HasSlash[model_id]
       /\ ~h.raised
       /\ create_dummy_input_kind_pt(ModelTypeOf[h.model, HubModelName[model_id]]) # "dict"
    THEN TorchExportOutcomes(name)
    ELSE {ExportOut(FALSE, {})}

\* try_pytorch_hub_load(model_id, output_path) for the outcomes h of
\* torch.hub.load, o of the nested main_export, e of torch.onnx.export
try_pytorch_hub_load(files, mf, libs, model_id, name, h, o, e) ==
    IF ~HasSlash[model_id] THEN Outcome(FALSE, files, mf, FALSE, {})
    ELSE IF h.raised THEN Outcome(FALSE, files, mf, FALSE, {})
    ELSE IF create_dummy_input_kind_pt(
                ModelTypeOf[h.model, HubModelName[model_id]]) = "dict"
    THEN IF HubCallsOptimum(model_id, h)
         THEN LET r == try_optimum_export_pytorch(files, mf, libs, model_id, name, o)
              IN  Outcome(r.ok, r.fs, r.manifest, r.called, r.fresh)
         ELSE Outcome(FALSE, files, mf, FALSE, {})
    ELSE try_torch_export(files, mf, name, e)

\* The loop that tries the same strategy again after a failure
Advance_Retry(ok) ==
    IF ok THEN Exit(TRUE) /\ strategies' = strategies
    ELSE strategies' = strategies /\ UNCHANGED <<pc, status>>

\* lines 475-487: the loop goes on to the next strategy, or is exhausted
Advance(ok) ==
    IF ok THEN Exit(TRUE) /\ strategies' = strategies
    ELSE IF Len(strategies) = 1 THEN Exit(FALSE) /\ strategies' = Tail(strategies)
    ELSE strategies' = Tail(strategies) /\ UNCHANGED <<pc, status>>

\* lines 499-506: the argument count
PTMain ==
    /\ conv = "pytorch" /\ pc = "main"
    /\ IF argc # 4 THEN Exit(FALSE) ELSE pc' = "pt_begin" /\ status' = status
    /\ log' = IF argc # 4 THEN Append(log, "usage") ELSE log
    /\ UNCHANGED <<inputs, synthVars, hub, written, modelId, fs, manifest, hist, detected, task, dummy,
                   loadTries, strategies, optTask>>

\* lines 440-449: import torch, the output directory, the identifier
PTBegin ==
    /\ conv = "pytorch" /\ pc = "pt_begin"
    /\ log' = IF "torch" \in missing THEN Append(log, "missing_dependency") ELSE log
    /\ IF "torch" \in missing
       THEN Exit(FALSE) /\ modelId' = modelId
       ELSE /\ modelId' = extract_pytorch_model_id(axonId)
            /\ pc' = "pt_optimum"
            /\ status' = status
    /\ UNCHANGED <<inputs, synthVars, hub, written, fs, manifest, hist, detected, task, dummy, loadTries,
                   strategies, optTask>>

\* lines 451-473: Strategy 0, the check of what it left, the strategies list
PTOptimum ==
    /\ conv = "pytorch" /\ pc = "pt_optimum"
    /\ \E o \in MainExportOutcomes :
         LET r == try_optimum_export_pytorch(fs, manifest, missing, modelId,
                                             outName, o)
         IN  /\ fs' = r.fs
             /\ manifest' = r.manifest
             /\ hist' = Append(hist, Record("optimum", r, FALSE))
             /\ log' = log \o Diagnostic("optimum", r.ok, r.called /\ o.raised)
             /\ optTask' = IF r.called THEN "auto" ELSE optTask
             /\ written' = RecordWrite(written, "common", r, find_onnx_files(r.fs),
                                       "auto")
             /\ IF r.ok /\ Strategy0Accepted(r.fs, outName)
                THEN Exit(TRUE) /\ strategies' = strategies
                ELSE /\ strategies' = StrategyList(modelPath)
                     /\ pc' = "pt_chain"
                     /\ status' = status
    /\ UNCHANGED <<inputs, synthVars, hub, modelId, detected, task, dummy, loadTries>>

\* try_load_torch_script as the head of the strategies list; task is the
\* task detect_model_type returned in it ("None": it was not called)
PTTorchScript ==
    /\ conv = "pytorch" /\ pc = "pt_chain" /\ Head(strategies) = "torchscript"
    /\ \E l \in LoadOutcomes, e \in TorchExportOutcomes(outName) :
         LET r == try_load_torch_script(fs, manifest, modelPath, outName, l, e)
         IN  /\ fs' = r.fs
             /\ hist' = Append(hist, Record("torchscript", r, FALSE))
             /\ log' = log \o Diagnostic("torchscript", r.ok, ~r.called \/ e.raised)
                            \o AllFailed(~r.ok /\ Len(strategies) = 1)
             /\ task' = IF l.raised THEN "None"
                        ELSE ModelTypeOf[l.model, modelPath.name][2]
             /\ Advance(r.ok)
    /\ UNCHANGED <<inputs, synthVars, hub, written, modelId, manifest, detected, dummy, loadTries, optTask>>

\* try_load_state_dict as the head of the strategies list
PTStateDict ==
    /\ conv = "pytorch" /\ pc = "pt_chain" /\ Head(strategies) = "state_dict"
    /\ \E c \in CheckpointOutcomes, e \in TorchExportOutcomes(outName) :
         LET r == try_load_state_dict(fs, manifest, modelPath, outName, c, e)
         IN  /\ fs' = r.fs
             /\ hist' = Append(hist, Record("state_dict", r, FALSE))
             /\ log' = log \o Diagnostic("state_dict", r.ok, ~r.called \/ e.raised)
                            \o AllFailed(~r.ok /\ Len(strategies) = 1)
             /\ task' = IF c.form \in {"module", "dict_model"}
                        THEN ModelTypeOf[c.model, modelPath.name][2]
                        ELSE "None"
             /\ Advance(r.ok)
    /\ UNCHANGED <<inputs, synthVars, hub, written, modelId, manifest, detected, dummy, loadTries, optTask>>

\* try_pytorch_hub_load as the head of the strategies list; it may call
\* try_optimum_export_pytorch again
PTHub ==
    /\ conv = "pytorch" /\ pc = "pt_chain" /\ Head(strategies) = "hub"
    /\ \E h \in LoadOutcomes :
       \E o \in HubExportOutcomes(modelId, h),
          e \in HubTorchOutcomes(modelId, h, outName) :
         LET r == try_pytorch_hub_load(fs, manifest, missing, modelId, outName, h, o, e)
             inner == try_optimum_export_pytorch(fs, manifest, missing, modelId,
                                                 outName, o)
         IN  /\ fs' = r.fs
             /\ manifest' = r.manifest
             /\ hist' = IF HubCallsOptimum(modelId, h)
                        THEN hist \o <<Record("hub", r, FALSE),
                                       Record("optimum", inner, TRUE)>>
                        ELSE Append(hist, Record("hub", r, FALSE))
             /\ log' = log
                    \o (IF HubCallsOptimum(modelId, h)
                        THEN Diagnostic("optimum", inner.ok, inner.called /\ o.raised)
                        ELSE <<>>)
                    \o Diagnostic("hub", r.ok,
                           /\ HasSlash[modelId]
                           /\ \/ h.raised
                              \/ create_dummy_input_kind_pt(
                                     ModelTypeOf[h.model, HubModelName[modelId]]) = "dict"
                              \/ e.raised)
                    \o AllFailed(~r.ok /\ Len(strategies) = 1)
             /\ optTask' = IF HubCallsOptimum(modelId, h) /\ inner.called
                           THEN "auto" ELSE optTask
             /\ task' = IF HasSlash[modelId] /\ ~h.raised
                        THEN ModelTypeOf[h.model, HubModelName[modelId]][2]
                        ELSE "None"
             /\ hub' = IF HasSlash[modelId] THEN HubSplitOf[modelId] ELSE hub
             /\ written' = IF HubCallsOptimum(modelId, h)
                           THEN RecordWrite(written, "common", inner,
                                            find_onnx_files(inner.fs), "auto")
                           ELSE written
             /\ Advance(r.ok)
    /\ UNCHANGED <<inputs, synthVars, modelId, detected, dummy, loadTries>>

\* try_torchvision_model as the head of the strategies list
PTTorchvision ==
    /\ conv = "pytorch" /\ pc = "pt_chain" /\ Head(strategies) = "torchvision"
    /\ \E built \in BOOLEAN, e \in TorchExportOutcomes(outName) :
         LET r == try_torchvision_model(fs, manifest, missing, modelId, outName,
                                        built, e)
         IN  /\ fs' = r.fs
             /\ hist' = Append(hist, Record("torchvision", r, FALSE))
             /\ log' = log \o Diagnostic("torchvision", r.ok,
                                "torchvision" \in missing
                                \/ (InTorchvision[modelId] /\ (~built \/ e.raised)))
                            \o AllFailed(~r.ok /\ Len(strategies) = 1)
             /\ Advance(r.ok)
    /\ UNCHANGED <<inputs, synthVars, hub, written, modelId, manifest, detected, task, dummy, loadTries, optTask>>

(***************************************************************************)
(* TensorFlow converter.  convert_tensorflow.py does not compile: the      *)
(* statement after "if os.path.exists(model_path):" (line 211) is not      *)
(* indented, so the interpreter rejects the file with IndentationError     *)
(* before any of its statements runs and the process ends with status 1.   *)
(***************************************************************************)
TFCompile ==
    /\ conv = "tf" /\ pc = "main"
    /\ Exit(FALSE)
    /\ log' = Append(log, "IndentationError")
    /\ UNCHANGED <<inputs, synthVars, hub, written, modelId, fs, manifest, hist, detected, task, dummy,
                   loadTries, strategies, optTask>>

(***************************************************************************)
(* Specification of the converter processes.                               *)
(***************************************************************************)
HFModelPaths ==
    {[kind |-> "missing", name |-> <<"m">>], [kind |-> "dir", name |-> <<"m">>]}

InitRun ==
    /\ argc \in ArgCounts
    /\ outName \in OutNames
    /\ fs \in StaleSets(outName)
    /\ manifest = NoManifest
    /\ pc = "main"
    /\ status = -1
    /\ hist = <<>>
    /\ detected = "None"
    /\ task = "None"
    /\ dummy = "none"
    /\ loadTries = 0
    /\ strategies = <<>>
    /\ optTask = "None"
    /\ modelId = <<>>
    /\ attrs = DefaultParams
    /\ modelClass = "None"
    /\ synth = <<>>
    /\ hub = NoHubCall
    /\ written = <<>>
    /\ log = <<>>

Init ==
    /\ InitRun
    /\ \/ /\ conv = "hf"
          /\ missing \in MissingSets(HFLibraries)
          /\ modelPath \in HFModelPaths
          /\ axonId \in HFIds
          /\ config \in ChainConfigs
       \/ /\ conv = "pytorch"
          /\ missing \in MissingSets(PTLibraries)
          /\ modelPath \in PTModelPaths
          /\ axonId \in PTIds
          /\ config = NoConfig
       \/ /\ conv = "tf"
          /\ missing = {}
          /\ modelPath \in HFModelPaths
          /\ axonId = Id_tfhub_model
          /\ config = NoConfig

Next ==
    \/ HFMain \/ HFBegin \/ HFOptimum \/ HFLoad \/ HFTorchExport \/ HFJitTrace
    \/ PTMain \/ PTBegin \/ PTOptimum
    \/ PTTorchScript \/ PTStateDict \/ PTHub \/ PTTorchvision
    \/ TFCompile

Spec == Init /\ [][Next]_vars

(***************************************************************************)
(* Specification of task detection: convert_huggingface_to_onnx from its   *)
(* start to the call of Strategy 1, over config.json documents.            *)
(***************************************************************************)
\* longest architectures list of the documents
MaxArch == 2

\* entries of an architectures list: two registry keys with different
\* tasks, a class that is no key, and an entry that is itself a list
ArchEntries ==
    {EStr(<<"V","i","T","F","o","r","I","m","a","g","e","C","l","a","s","s","i","f","i","c","a","t","i","o","n">>),
     EStr(<<"C","L","I","P","M","o","d","e","l">>),
     EStr(<<"G","P","T","2","L","M","H","e","a","d","M","o","d","e","l">>),
     EList}

ArchLists == UNION {[1 .. n -> ArchEntries] : n \in 0 .. MaxArch}

ArchValues ==
    {JAbsent, JNull, JStr(<<"B","e","r","t","C","o","n","f","i","g">>)} \cup {JList(l) : l \in ArchLists}

ModelTypeValues ==
    {JAbsent, JNull,
     JStr(<<"b","e","r","t">>),
     JStr(<<"C","L","I","P">>),
     JStr(<<"d","e","b","e","r","t","a","-","v","2">>),
     JStr(<<"g","p","t","2">>)}

AutoMapValues ==
    {JAbsent, JNull,
     JDict(<<EPair(<<"A","u","t","o","C","o","n","f","i","g">>, EStr(<<"c","o","n","f","i","g","u","r","a","t","i","o","n","_","m","y",".","M","y","C","o","n","f","i","g">>)),
             EPair(<<"A","u","t","o","M","o","d","e","l">>, EStr(<<"m","o","d","e","l","i","n","g","_","m","y",".","S","w","i","n","F","o","r","I","m","a","g","e","C","l","a","s","s","i","f","i","c","a","t","i","o","n">>))>>),
     JDict(<<EPair(<<"A","u","t","o","M","o","d","e","l">>, EStr(<<"D","e","t","r","F","o","r","O","b","j","e","c","t","D","e","t","e","c","t","i","o","n">>)),
             EPair(<<"A","u","t","o","M","o","d","e","l","F","o","r","X">>, EStr(<<"m","o","d","e","l","i","n","g","_","m","y",".","S","w","i","n","F","o","r","I","m","a","g","e","C","l","a","s","s","i","f","i","c","a","t","i","o","n">>))>>),
     JDict(<<EPair(<<"A","u","t","o","T","o","k","e","n","i","z","e","r">>, EList),
             EPair(<<"A","u","t","o","M","o","d","e","l">>, EStr(<<"m","o","d","e","l","i","n","g","_","m","y",".","S","w","i","n","F","o","r","I","m","a","g","e","C","l","a","s","s","i","f","i","c","a","t","i","o","n">>))>>)}

DetectConfigs ==
    {Cfg(f, JAbsent, JAbsent, JAbsent) : f \in {"absent", "unreadable", "malformed", "notobject"}}
    \cup {Cfg("object", a, m, am) :
             a \in ArchValues, m \in ModelTypeValues, am \in AutoMapValues}

InitDetect ==
    /\ conv = "hf"
    /\ argc = 4
    /\ missing = {}
    /\ modelPath = [kind |-> "dir", name |-> <<"m">>]
    /\ axonId = Id_hf_distilgpt2
    /\ config \in DetectConfigs
    /\ outName = "model.onnx"
    /\ fs = {}
    /\ manifest = NoManifest
    /\ pc = "main"
    /\ status = -1
    /\ hist = <<>>
    /\ detected = "None"
    /\ task = "None"
    /\ dummy = "none"
    /\ loadTries = 0
    /\ strategies = <<>>
    /\ optTask = "None"
    /\ modelId = <<>>
    /\ attrs = DefaultParams
    /\ modelClass = "None"
    /\ synth = <<>>
    /\ hub = NoHubCall
    /\ written = <<>>
    /\ log = <<>>

NextDetect == HFMain \/ HFBegin

SpecDetect == InitDetect /\ [][NextDetect]_vars

(***************************************************************************)
(* Properties.                                                             *)
(***************************************************************************)
Range(seq) == {seq[i] : i \in DOMAIN seq}

Attempted(name) == \E i \in DOMAIN hist : hist[i].name = name

\* the strategies of the chain of the running converter
ChainOf ==
    IF conv = "hf" THEN {"optimum", "torch_export", "jit_trace"}
    ELSE IF conv = "pytorch" THEN {"optimum"} \cup Range(StrategyList(modelPath))
    ELSE {}

\* the libraries a strategy imports or works on
Needs(name) ==
    CASE name = "optimum" -> {"optimum"}
      [] name \in {"torch_export", "jit_trace"} -> {"torch", "transformers"}
      [] name = "torchvision" -> {"torch", "torchvision"}
      [] OTHER -> {"torch"}

\* load_model_and_tokenizer raised after its last configuration
LoadFailed ==
    conv = "hf" /\ pc = "exited" /\ loadTries = NLoadConfigs /\ dummy = "none"

Failed == pc = "exited" /\ status = 1 /\ argc = 4

\* C1: in the Hugging Face and TensorFlow chains, once a strategy reports
\* success no further strategy is invoked and the invocation returns success
\* at once: a successful attempt is the last attempt and the process has
\* exited with status 0.
FirstSuccessEndsChain ==
    conv \in {"hf", "tf"} =>
        \A i \in DOMAIN hist :
            hist[i].ok => i = Len(hist) /\ pc = "exited" /\ status = 0

\* C1 witness: torch.onnx.export succeeded after Optimum had failed.
FirstSuccessEndsChain_Witness ==
    /\ conv = "hf" /\ Len(hist) = 2
    /\ ~hist[1].ok /\ hist[2].name = "torch_export" /\ hist[2].ok
    /\ status = 0

\* C2: in the PyTorch chain, whenever Strategy 0 (try_optimum_export_pytorch
\* called by convert_pytorch_to_onnx) reports success, the invocation returns
\* success and no later strategy is invoked, whatever the output path and
\* the content of the output directory.
Strategy0SuccessEndsChain ==
    conv = "pytorch" =>
        \A i \in DOMAIN hist :
            (hist[i].name = "optimum" /\ ~hist[i].nested /\ hist[i].ok)
                => i = Len(hist) /\ pc = "exited" /\ status = 0

\* C3: an invocation reports failure only after every strategy of its chain
\* has been attempted (stated for the runs in which every library is
\* installed).
FailureOnlyAfterEveryStrategy ==
    (Failed /\ missing = {} /\ conv # "tf") =>
        \A name \in ChainOf : Attempted(name)

\* C4: an attempt reports success only if its own export call freshly wrote
\* an output file.
SuccessOnlyByFreshOutput ==
    \A i \in DOMAIN hist : hist[i].ok => hist[i].fresh # {}

\* C5: the Optimum export is called at most once during one invocation.
OptimumCalledAtMostOnce ==
    Cardinality({i \in DOMAIN hist : hist[i].name = "optimum" /\ hist[i].called}) <= 1

\* C6: a process that exits with status 0 leaves a file at the destination
\* path or the manifest in the output directory; a process whose argument
\* count is wrong, or all of whose attempts failed, exits with a non-zero
\* status.
ExitStatusContract ==
    /\ status = 0 => (output_path \in fs \/ manifest # NoManifest)
    /\ (pc = "exited" /\ argc # 4) => status # 0
    /\ (pc = "exited" /\ \A i \in DOMAIN hist : ~hist[i].ok) => status # 0

\* C6 witness: a multi-component success, where the manifest and not a file
\* at the destination path stands for the output.
ExitStatusContract_Witness ==
    /\ status = 0 /\ output_path \notin fs /\ manifest # NoManifest
    /\ hist[Len(hist)].ok

\* C7: the files list of the manifest a successful Optimum attempt writes is
\* exactly the set of files this attempt produced.
ManifestListsProducedFiles ==
    \A i \in DOMAIN hist :
        (hist[i].name = "optimum" /\ hist[i].ok /\ i = Len(hist)
         /\ manifest # NoManifest)
            => Range(manifest.files) = {f.name : f \in hist[i].fresh}

\* C8: a missing library makes only the strategies that need it fail: in a
\* failed run every strategy that needs no missing library has been
\* attempted (runs ended by a failed model load apart).
MissingLibrarySkipsOnlyItsStrategy ==
    (Failed /\ conv # "tf" /\ ~LoadFailed) =>
        \A name \in ChainOf : (Needs(name) \cap missing = {}) => Attempted(name)

\* the task labels of the registry
TaskLabels == {TASK_MAPPING[k] : k \in DOMAIN TASK_MAPPING}

\* no well-formed field of the document names a registry key
NothingMatches(c) ==
    /\ c.architectures.t = "list" =>
           \A i \in DOMAIN c.architectures.items : ~IsKey(c.architectures.items[i])
    /\ c.model_type.t = "str" =>
           ConfigClassName(c.model_type.s) \notin DOMAIN TASK_MAPPING
    /\ c.auto_map.t = "dict" =>
           \A i \in DOMAIN c.auto_map.items :
               c.auto_map.items[i].t = "str" =>
                   Join(ClassNameOf(c.auto_map.items[i].s)) \notin DOMAIN TASK_MAPPING

\* C9: task detection is never fatal: whatever config.json is (absent,
\* unreadable, malformed, not an object, fields of unexpected type, no
\* registry match) the detector returns a task label or the no-task value
\* without raising, the no-task value when the document cannot be used or
\* nothing in it matches, and the invocation goes on to Strategy 1.
TaskDetectionNeverFatal ==
    pc \notin {"main", "hf_begin"} =>
        /\ pc = "hf_optimum"
        /\ detected \in TaskLabels \cup {"None"}
        /\ (config.file # "object" \/ NothingMatches(config)) => detected = "None"

\* C9 witness: a document whose architectures field is null was read and
\* the invocation stands before Strategy 1 with no task.
TaskDetectionNeverFatal_Witness ==
    /\ pc = "hf_optimum" /\ detected = "None"
    /\ config.file = "object" /\ config.architectures.t = "null"

\* the entries of architectures, the signature of model_type and the values
\* of auto_map as C10 reads them
ArchEntriesOf(c) ==
    IF c.architectures.t = "list" THEN c.architectures.items ELSE <<>>

AutoMapValuesOf(c) ==
    IF c.auto_map.t = "dict" THEN c.auto_map.items ELSE <<>>

SuffixIsKey(e) == e.t = "str" /\ Join(ClassNameOf(e.s)) \in DOMAIN TASK_MAPPING

FirstIn(seq, P(_)) ==
    seq[CHOOSE i \in DOMAIN seq : P(seq[i]) /\ \A j \in 1 .. (i - 1) : ~P(seq[j])]

\* the resolution order of C10
ResolutionOrder(c) ==
    IF \E i \in DOMAIN ArchEntriesOf(c) : IsKey(ArchEntriesOf(c)[i])
    THEN TASK_MAPPING[Join(FirstIn(ArchEntriesOf(c), IsKey).s)]
    ELSE IF c.model_type.t = "str"
            /\ ConfigClassName(c.model_type.s) \in DOMAIN TASK_MAPPING
    THEN TASK_MAPPING[ConfigClassName(c.model_type.s)]
    ELSE IF \E i \in DOMAIN AutoMapValuesOf(c) : SuffixIsKey(AutoMapValuesOf(c)[i])
    THEN TASK_MAPPING[Join(ClassNameOf(FirstIn(AutoMapValuesOf(c), SuffixIsKey).s))]
    ELSE "None"

\* C10: task detection resolves in a fixed order, first match wins: the
\* first entry of architectures that is a registry key, else the signature
\* derived from model_type, else the first auto_map value whose class-name
\* suffix is a registry key, else no task.
DetectionFollowsResolutionOrder ==
    (pc = "hf_optimum" /\ config.file = "object")
        => detected = ResolutionOrder(config)

\* a well-formed architectures field (a list) holds a registry key
ArchMatches(c) ==
    \E i \in DOMAIN ArchEntriesOf(c) : IsKey(ArchEntriesOf(c)[i])

\* the model_type field is a string whose signature is a registry key
ModelTypeMatches(c) ==
    c.model_type.t = "str" /\ ConfigClassName(c.model_type.s) \in DOMAIN TASK_MAPPING

\* the auto_map field is a mapping to strings, one of which ends in a key
AutoMapMatches(c) ==
    /\ c.auto_map.t = "dict"
    /\ \A i \in DOMAIN c.auto_map.items : c.auto_map.items[i].t = "str"
    /\ \E i \in DOMAIN c.auto_map.items : SuffixIsKey(c.auto_map.items[i])

\* C11: the resolution steps are independent: when architectures is missing,
\* malformed or holds no registry key, a well-formed matching model_type
\* still resolves the task; when model_type too is missing, malformed or
\* non-matching, a well-formed matching auto_map still resolves it.
StepsAreIndependent ==
    (pc = "hf_optimum" /\ config.file = "object" /\ ~ArchMatches(config)) =>
        /\ ModelTypeMatches(config) =>
               detected = TASK_MAPPING[ConfigClassName(config.model_type.s)]
        /\ (~ModelTypeMatches(config) /\ AutoMapMatches(config)) =>
               detected = TASK_MAPPING[Join(ClassNameOf(
                              FirstIn(config.auto_map.items, SuffixIsKey).s))]

\* the families of the registry keys <Family>Config of TASK_MAPPING
ConfigFamilies ==
    {
     <<"R", "e", "s", "N", "e", "t">>,
     <<"V", "i", "T">>,
     <<"V", "i", "T", "M", "A", "E">>,
     <<"V", "i", "T", "M", "S", "N">>,
     <<"D", "e", "i", "T">>,
     <<"B", "e", "i", "t">>,
     <<"S", "w", "i", "n">>,
     <<"S", "w", "i", "n", "v", "2">>,
     <<"C", "o", "n", "v", "N", "e", "x", "t">>,
     <<"C", "o", "n", "v", "N", "e", "x", "t", "V", "2">>,
     <<"E", "f", "f", "i", "c", "i", "e", "n", "t", "N", "e", "t">>,
     <<"V", "G", "G">>,
     <<"M", "o", "b", "i", "l", "e", "N", "e", "t", "V", "1">>,
     <<"M", "o", "b", "i", "l", "e", "N", "e", "t", "V", "2">>,
     <<"M", "o", "b", "i", "l", "e", "V", "i", "T">>,
     <<"M", "o", "b", "i", "l", "e", "V", "i", "T", "V", "2">>,
     <<"R", "e", "g", "N", "e", "t">>,
     <<"D", "i", "n", "o", "v", "2">>,
     <<"P", "o", "o", "l", "F", "o", "r", "m", "e", "r">>,
     <<"L", "e", "v", "i", "t">>,
     <<"C", "v", "t">>,
     <<"F", "o", "c", "a", "l", "N", "e", "t">>,
     <<"B", "i", "t">>,
     <<"D", "a", "t", "a", "2", "V", "e", "c", "V", "i", "s", "i", "o", "n">>,
     <<"N", "a", "t">>,
     <<"D", "i", "n", "a", "t">>,
     <<"P", "v", "t">>,
     <<"P", "v", "t", "V", "2">>,
     <<"V", "a", "n">>,
     <<"D", "e", "n", "s", "e", "N", "e", "t">>,
     <<"I", "n", "c", "e", "p", "t", "i", "o", "n", "V", "3">>,
     <<"D", "e", "t", "r">>,
     <<"Y", "o", "l", "o", "s">>,
     <<"C", "o", "n", "d", "i", "t", "i", "o", "n", "a", "l", "D", "e", "t", "r">>,
     <<"D", "e", "f", "o", "r", "m", "a", "b", "l", "e", "D", "e", "t", "r">>,
     <<"D", "e", "t", "a">>,
     <<"G", "r", "o", "u", "n", "d", "i", "n", "g", "D", "i", "n", "o">>,
     <<"R", "T", "D", "e", "t", "r">>,
     <<"S", "e", "g", "f", "o", "r", "m", "e", "r">>,
     <<"M", "a", "s", "k", "F", "o", "r", "m", "e", "r">>,
     <<"M", "a", "s", "k", "2", "F", "o", "r", "m", "e", "r">>,
     <<"U", "p", "e", "r", "N", "e", "t">>,
     <<"O", "n", "e", "F", "o", "r", "m", "e", "r">>,
     <<"D", "P", "T">>,
     <<"G", "L", "P", "N">>,
     <<"D", "e", "p", "t", "h", "A", "n", "y", "t", "h", "i", "n", "g">>,
     <<"G", "P", "T", "2">>,
     <<"G", "P", "T", "N", "e", "o">>,
     <<"G", "P", "T", "N", "e", "o", "X">>,
     <<"G", "P", "T", "J">>,
     <<"L", "l", "a", "m", "a">>,
     <<"M", "i", "s", "t", "r", "a", "l">>,
     <<"P", "h", "i", "3">>,
     <<"O", "P", "T">>,
     <<"B", "l", "o", "o", "m">>,
     <<"B", "e", "r", "t">>,
     <<"R", "o", "b", "e", "r", "t", "a">>,
     <<"D", "i", "s", "t", "i", "l", "B", "e", "r", "t">>,
     <<"A", "l", "b", "e", "r", "t">>,
     <<"E", "l", "e", "c", "t", "r", "a">>,
     <<"C", "a", "m", "e", "m", "b", "e", "r", "t">>,
     <<"X", "L", "M", "R", "o", "b", "e", "r", "t", "a">>,
     <<"D", "e", "b", "e", "r", "t", "a">>,
     <<"D", "e", "b", "e", "r", "t", "a", "V", "2">>,
     <<"T", "5">>,
     <<"B", "a", "r", "t">>,
     <<"M", "T", "5">>,
     <<"M", "B", "a", "r", "t">>,
     <<"P", "e", "g", "a", "s", "u", "s">>,
     <<"X", "L", "N", "e", "t">>,
     <<"M", "P", "N", "e", "t">>,
     <<"S", "e", "n", "t", "e", "n", "c", "e", "T", "r", "a", "n", "s", "f", "o", "r", "m", "e", "r", "s">>,
     <<"C", "L", "I", "P">>,
     <<"C", "L", "I", "P", "T", "e", "x", "t">>,
     <<"C", "L", "I", "P", "V", "i", "s", "i", "o", "n">>,
     <<"B", "l", "i", "p">>,
     <<"B", "l", "i", "p", "2">>,
     <<"W", "a", "v", "2", "V", "e", "c", "2">>,
     <<"W", "h", "i", "s", "p", "e", "r">>,
     <<"H", "u", "b", "e", "r", "t">>
    }

\* the registry key of each family, by the family's name in lower case
FamilyKey ==
    [n \in {Join(StrLower(f)) : f \in ConfigFamilies} |->
        Join(CHOOSE f \in ConfigFamilies : Join(StrLower(f)) = n) \o "Config"]

\* a model_type case-normalized and with its separators stripped
NormalizedType(model_type) ==
    Join(StrRemove(StrRemove(StrLower(model_type), "-"), "_"))

\* architectures is missing or a list of names none of which is a key
ArchGivesNothing(c) ==
    /\ c.architectures.t \in {"absent", "list"}
    /\ \A i \in DOMAIN c.architectures.items :
           c.architectures.items[i].t = "str" /\ ~IsKey(c.architectures.items[i])

\* C12: with no matching architectures, a model_type that, case-normalized
\* and with '-' and '_' stripped, names the family of a registry key
\* <Family>Config resolves to the task of that key.
ModelTypeLookupIsInsensitive ==
    (pc = "hf_optimum" /\ config.file = "object" /\ ArchGivesNothing(config)
     /\ config.model_type.t = "str"
     /\ NormalizedType(config.model_type.s) \in DOMAIN FamilyKey)
        => detected = TASK_MAPPING[FamilyKey[NormalizedType(config.model_type.s)]]

\* the strategy of the chain that ran last (a nested call is part of it)
LastStrategy ==
    hist[CHOOSE i \in DOMAIN hist :
             ~hist[i].nested /\ \A j \in DOMAIN hist : (j > i) => hist[j].nested].name

\* the model name the last strategy handed to detect_model_type
DetectName ==
    IF LastStrategy = "hub" THEN HubModelName[modelId] ELSE modelPath.name

\* does a name of the runs contain "clip" in any letter case (evaluated once)
NamesClip ==
    [n \in {extract_hf_model_id(i) : i \in HFIds} \cup ModelNames |->
        Contains(StrLower(n), <<"c","l","i","p">>)]

MODEL_CLASS_MAPPING ==
    ("image-classification" :> "AutoModelForImageClassification") @@
    ("object-detection" :> "AutoModelForObjectDetection") @@
    ("semantic-segmentation" :> "AutoModelForSemanticSegmentation") @@
    ("depth-estimation" :> "AutoModelForDepthEstimation") @@
    ("zero-shot-image-classification" :> "AutoModel") @@
    ("image-to-text" :> "AutoModelForVision2Seq") @@
    ("text-generation" :> "AutoModelForCausalLM") @@
    ("fill-mask" :> "AutoModelForMaskedLM") @@
    ("text2text-generation" :> "AutoModelForSeq2SeqLM") @@
    ("text-classification" :> "AutoModelForSequenceClassification") @@
    ("token-classification" :> "AutoModelForTokenClassification") @@
    ("question-answering" :> "AutoModelForQuestionAnswering") @@
    ("feature-extraction" :> "AutoModel") @@
    ("automatic-speech-recognition" :> "AutoModelForSpeechSeq2Seq") @@
    ("audio-classification" :> "AutoModelForAudioClassification") @@
    ("default" :> "AutoModel")

\* MODEL_CLASS_MAPPING.get(task) with no default: None, written "", for a
\* task without entry
get_model_class_NoDefault(t) ==
    IF t \in DOMAIN MODEL_CLASS_MAPPING THEN MODEL_CLASS_MAPPING[t] ELSE ""

\* get_model_class(task): MODEL_CLASS_MAPPING.get(task, MODEL_CLASS_MAPPING['default'])
get_model_class(t) ==
    IF t \in DOMAIN MODEL_CLASS_MAPPING
    THEN MODEL_CLASS_MAPPING[t]
    ELSE MODEL_CLASS_MAPPING["default"]

\* how many samples of a random tensor are told apart
MaxDraw == 2

Draws == 1 .. MaxDraw

\* bool(v) of an attribute value (None for an attribute that is not there)
Truthy(v) == (v.t = "int" /\ v.v # 0) \/ (v.t = "list" /\ v.items # <<>>)

\* x or y
OrElse(x, y) == IF Truthy(x) THEN x ELSE y

\* getattr(config, name, default) for an integer default
GetAttr(v, default) == IF v.t = "absent" THEN PInt(default) ELSE v

Min(a, b) == IF a <= b THEN a ELSE b

\* One tensor: fill says how its values were made ("randn", "randint" over
\* [low, high), "ones"), value stands for the values drawn.
Tensor(name, shape, dtype, fill, low, high, value) ==
    [name |-> name, shape |-> shape, dtype |-> dtype, fill |-> fill,
     low |-> low, high |-> high, value |-> value]

NegativeDim(shape) == \E i \in DOMAIN shape : shape[i] < 0

\* torch.randn(*shape): the d-th sample of the generator; a negative
\* dimension raises RuntimeError
randn(name, shape, d) == Tensor(name, shape, "float32", "randn", 0, 0, d)

\* torch.randint(low, high, shape): raises unless low < high
randint(name, low, high, shape, d) ==
    Tensor(name, shape, "int64", "randint", low, high,
           IF d = 1 THEN low ELSE IF d = 2 THEN high - 1 ELSE (low + high) \div 2)

randint_raises(low, high, shape) == high <= low \/ NegativeDim(shape)

\* torch.ones(*shape, dtype=torch.long)
ones(name, shape) == Tensor(name, shape, "int64", "ones", 1, 2, 1)

\* What a create_dummy_input call gives: an exception, one tensor, or a dict
\* of tensors, with input_names
Raised == [raised |-> TRUE, kind |-> "none", names |-> <<>>, tensors |-> <<>>]

Single(t, input_name) ==
    [raised |-> FALSE, kind |-> "tensor", names |-> <<input_name>>, tensors |-> <<t>>]

Bundle(ts) ==
    [raised |-> FALSE, kind |-> "dict",
     names |-> [i \in DOMAIN ts |-> ts[i].name], tensors |-> ts]

\* The vision input without the unpacking of lines 628-630 into first and
\* last element: a list-valued size gives a square of its first element.
VisionInput_Square(a, d) ==
    LET size == OrElse(a.image_size,
                   OrElse(a.img_size, OrElse(a.sample_size, PInt(224))))
        height == IF size.t = "list" THEN size.items[1] ELSE size.v
    IN  IF NegativeDim(<<1, 3, height, height>>) THEN Raised
        ELSE Single(randn("pixel_values", <<1, 3, height, height>>, d), "pixel_values")

\* lines 616-655 of create_dummy_input: the vision tasks
VisionInput(a, d) ==
    LET size == OrElse(a.image_size,
                   OrElse(a.img_size, OrElse(a.sample_size, PInt(224))))
        height == IF size.t = "list" THEN size.items[1] ELSE size.v
        width == IF size.t = "list" THEN size.items[Len(size.items)] ELSE size.v
    IN  IF NegativeDim(<<1, 3, height, width>>) THEN Raised
        ELSE Single(randn("pixel_values", <<1, 3, height, width>>, d), "pixel_values")

\* lines 657-671: zero-shot-image-classification
ZeroShotInput(a, d) ==
    LET vc == a.vision_config
        height == IF vc.kind = "absent" THEN 224 ELSE GetAttr(vc.image_size, 224).v
    IN  IF vc.kind = "object" THEN Raised
        ELSE IF NegativeDim(<<1, 3, height, height>>) THEN Raised
        ELSE Bundle(<<randn("pixel_values", <<1, 3, height, height>>, d),
                      randint("input_ids", 0, 1000, <<1, 77>>, d),
                      ones("attention_mask", <<1, 77>>)>>)

\* The text input without the cap of line 674: the sequence is as long as
\* the declared maximum position.
TextInput_NoCap(a, d) ==
    LET seq_len == GetAttr(a.max_position_embeddings, 128).v
        vocab_size == GetAttr(a.vocab_size, 30522).v
    IN  IF randint_raises(0, vocab_size, <<1, seq_len>>) THEN Raised
        ELSE Single(randint("input_ids", 0, vocab_size, <<1, seq_len>>, d), "input_ids")

\* lines 673-684: every other task
TextInput(a, d) ==
    LET seq_len == Min(128, GetAttr(a.max_position_embeddings, 128).v)
        vocab_size == GetAttr(a.vocab_size, 30522).v
    IN  IF randint_raises(0, vocab_size, <<1, seq_len>>) THEN Raised
        ELSE Single(randint("input_ids", 0, vocab_size, <<1, seq_len>>, d), "input_ids")

\* create_dummy_input without the branch of lines 657-671: the zero-shot
\* task is served by the text branch
create_dummy_input_TwoBranches(t, a, d) ==
    IF t \in HFVisionTasks THEN VisionInput(a, d)
    ELSE TextInput(a, d)

\* create_dummy_input(model, task, processor) of convert_huggingface.py for
\* the attributes a of model.config and the sample d of the generator
create_dummy_input(t, a, d) ==
    IF t \in HFVisionTasks THEN VisionInput(a, d)
    ELSE IF t = "zero-shot-image-classification" THEN ZeroShotInput(a, d)
    ELSE TextInput(a, d)

\* create_dummy_input(model, model_type, task) of convert_pytorch.py
create_dummy_input_pt(a, model_type, t, d) ==
    IF model_type = "vision" \/ t = "image-classification"
    THEN Single(randn("pixel_values", <<1, 3, 224, 224>>, d), "pixel_values")
    ELSE IF model_type = "nlp"
    THEN LET vocab_size == IF a.has_config THEN GetAttr(a.vocab_size, 30522).v
                           ELSE GetAttr(a.model_vocab_size, 30522).v
             seq_len == IF a.has_config
                        THEN Min(128, GetAttr(a.max_position_embeddings, 128).v)
                        ELSE 128
         IN  IF randint_raises(0, vocab_size, <<1, seq_len>>) THEN Raised
             ELSE Single(randint("input_ids", 0, vocab_size, <<1, seq_len>>, d),
                         "input_ids")
    ELSE IF model_type = "multimodal" \/ t = "zero-shot-image-classification"
    THEN Bundle(<<randn("pixel_values", <<1, 3, 224, 224>>, d),
                  randint("input_ids", 0, 49408, <<1, 77>>, d),
                  ones("attention_mask", <<1, 77>>)>>)
    ELSE Single(randn("input", <<1, 3, 224, 224>>, d), "input")

(***************************************************************************)
(* The loading and input synthesis steps over the task labels and the      *)
(* attributes a model can declare.                                         *)
(***************************************************************************)
\* how many times the steps are run on the same model
MaxCalls == 2

\* one registry key for each task label of TASK_MAPPING
LabelKeys ==
    {
     <<"R", "e", "s", "N", "e", "t", "F", "o", "r", "I", "m", "a", "g", "e", "C", "l", "a", "s", "s", "i", "f", "i", "c", "a", "t", "i", "o", "n">>,
     <<"D", "e", "t", "r", "F", "o", "r", "O", "b", "j", "e", "c", "t", "D", "e", "t", "e", "c", "t", "i", "o", "n">>,
     <<"S", "e", "g", "f", "o", "r", "m", "e", "r", "F", "o", "r", "S", "e", "m", "a", "n", "t", "i", "c", "S", "e", "g", "m", "e", "n", "t", "a", "t", "i", "o", "n">>,
     <<"C", "L", "I", "P", "M", "o", "d", "e", "l">>,
     <<"D", "P", "T", "C", "o", "n", "f", "i", "g">>,
     <<"G", "P", "T", "2", "C", "o", "n", "f", "i", "g">>,
     <<"B", "e", "r", "t", "C", "o", "n", "f", "i", "g">>,
     <<"T", "5", "C", "o", "n", "f", "i", "g">>,
     <<"X", "L", "N", "e", "t", "C", "o", "n", "f", "i", "g">>,
     <<"M", "P", "N", "e", "t", "C", "o", "n", "f", "i", "g">>,
     <<"B", "l", "i", "p", "C", "o", "n", "f", "i", "g">>,
     <<"W", "a", "v", "2", "V", "e", "c", "2", "C", "o", "n", "f", "i", "g">>
    }

\* config.json documents that give each task label, and one that gives none
SynthConfigs ==
    {NoConfig}
    \cup {Cfg("object", JList(<<EStr(k)>>), JAbsent, JAbsent) : k \in LabelKeys}

SizeValues == {PAbsent, PInt(0), PInt(-1), PInt(384), PList(<<480, 640>>)}

PositionValues == {PAbsent, PInt(0), PInt(-1), PInt(64), PInt(512)}

VocabValues == {PAbsent, PInt(50257)}

VisionConfigs ==
    {NoVisionConfig, VisionConfig("dict", PAbsent), VisionConfig("dict", PInt(336)),
     VisionConfig("object", PInt(224))}

\* model.config of the Hugging Face models: the attributes of one branch of
\* create_dummy_input vary while the others are not declared
HFAttrBags ==
    {Params(i, g, s, PAbsent, PAbsent, NoVisionConfig, TRUE, PAbsent, "none") :
        i \in SizeValues, g \in {PAbsent, PInt(256)}, s \in {PAbsent, PInt(32)}}
    \cup {Params(PAbsent, PAbsent, PAbsent, m, v, NoVisionConfig, TRUE, PAbsent, "none") :
        m \in PositionValues, v \in VocabValues}
    \cup {Params(PAbsent, PAbsent, PAbsent, PAbsent, PAbsent, c, TRUE, PAbsent, "none") :
        c \in VisionConfigs}

\* the PyTorch models: with or without a config, with or without vocab_size
PTAttrBags ==
    {Params(PAbsent, PAbsent, PAbsent, m, v, NoVisionConfig, TRUE, mv, model) :
        m \in PositionValues, v \in VocabValues,
        mv \in {PAbsent, PInt(1000)}, model \in LoadedModels}
    \cup {Params(PAbsent, PAbsent, PAbsent, PAbsent, PAbsent, NoVisionConfig, FALSE,
                 mv, model) :
        mv \in {PAbsent, PInt(1000)}, model \in LoadedModels}

\* convert_huggingface_to_onnx after a failed Strategy 1: the task (lines
\* 804, 515-516), the loader class (line 519) and the input (line 817)
HFSynthesize ==
    /\ conv = "hf" /\ pc = "hf_synth" /\ Len(synth) < MaxCalls
    /\ detected' = detect_task_from_config(config)
    /\ task' = IF detected' = "None" THEN detect_task_from_config(config)
               ELSE detected'
    /\ modelClass' = get_model_class(task')
    /\ \E d \in Draws : synth' = Append(synth, create_dummy_input(task', attrs, d))
    /\ UNCHANGED <<inputs, hub, written, log, modelId, fs, manifest, pc, status, hist,
                   dummy, loadTries, strategies, optTask>>

\* try_load_torch_script / try_load_state_dict after the load: the model
\* type and task (lines 302-303, 366-367) and the input (lines 307, 371)
PTSynthesize ==
    /\ conv = "pytorch" /\ pc = "pt_synth" /\ Len(synth) < MaxCalls
    /\ LET mt == ModelTypeOf[attrs.model, modelPath.name]
       IN  /\ task' = mt[2]
           /\ \E d \in Draws :
                synth' = Append(synth, create_dummy_input_pt(attrs, mt[1], mt[2], d))
    /\ UNCHANGED <<inputs, hub, written, log, modelId, fs, manifest, pc, status, hist,
                   detected, dummy, loadTries, strategies, optTask, modelClass>>

InitSynth ==
    /\ argc = 4
    /\ missing = {}
    /\ outName = "model.onnx"
    /\ fs = {}
    /\ manifest = NoManifest
    /\ status = -1
    /\ hist = <<>>
    /\ detected = "None"
    /\ task = "None"
    /\ dummy = "none"
    /\ loadTries = 0
    /\ strategies = <<>>
    /\ optTask = "None"
    /\ modelId = <<>>
    /\ modelClass = "None"
    /\ synth = <<>>
    /\ hub = NoHubCall
    /\ written = <<>>
    /\ log = <<>>
    /\ \/ /\ conv = "hf"
          /\ pc = "hf_synth"
          /\ modelPath = [kind |-> "dir", name |-> <<"m">>]
          /\ axonId = Id_hf_distilgpt2
          /\ config \in SynthConfigs
          /\ attrs \in HFAttrBags
       \/ /\ conv = "pytorch"
          /\ pc = "pt_synth"
          /\ modelPath \in {p \in PTModelPaths : p.kind = "file"}
          /\ axonId = Id_pt_resnet50
          /\ config = NoConfig
          /\ attrs \in PTAttrBags

NextSynth == HFSynthesize \/ PTSynthesize

SpecSynth == InitSynth /\ [][NextSynth]_vars

\* C14: every task label that is a value of TASK_MAPPING has a non-empty
\* entry in MODEL_CLASS_MAPPING, and get_model_class returns a non-empty
\* class for every task it is given: the entry of the label, and the
\* default loader for a task without entry, the no-task value included.
LoaderClassIsTotal ==
    /\ \A t \in TaskLabels :
           t \in DOMAIN MODEL_CLASS_MAPPING /\ MODEL_CLASS_MAPPING[t] # ""
    /\ (conv = "hf" /\ synth # <<>>) =>
           /\ modelClass \notin {"", "None"}
           /\ task \in DOMAIN MODEL_CLASS_MAPPING => modelClass = MODEL_CLASS_MAPPING[task]
           /\ task \notin DOMAIN MODEL_CLASS_MAPPING =>
                  modelClass = MODEL_CLASS_MAPPING["default"]

\* C14 witness: the loader was chosen for a model whose task is not resolved.
LoaderClassIsTotal_Witness ==
    /\ conv = "hf" /\ synth # <<>> /\ task = "None"
    /\ modelClass = "AutoModel"

\* the task of the model is not resolved: None in convert_huggingface.py,
\* "unknown" in convert_pytorch.py
TaskUnresolved ==
    \/ conv = "hf" /\ task = "None"
    \/ conv = "pytorch" /\ task = "unknown"

\* the model declares no size, position or vocabulary attribute
DeclaresNothing(a) ==
    /\ a.image_size = PAbsent /\ a.img_size = PAbsent /\ a.sample_size = PAbsent
    /\ a.max_position_embeddings = PAbsent /\ a.vocab_size = PAbsent
    /\ a.vision_config = NoVisionConfig /\ a.model_vocab_size = PAbsent

\* C15: for an unresolved task the synthesized input is the vision default,
\* one 4-D tensor [1, 3, 224, 224], in both converters.
UnknownTaskGetsVisionDefault ==
    (TaskUnresolved /\ DeclaresNothing(attrs)) =>
        \A i \in DOMAIN synth :
            /\ ~synth[i].raised
            /\ synth[i].kind = "tensor"
            /\ synth[i].tensors[1].shape = <<1, 3, 224, 224>>

\* the task families of the policy table
VisionFamilies ==
    {"image-classification", "object-detection", "semantic-segmentation",
     "depth-estimation", "image-to-text"}

TextFamilies ==
    {"text-generation", "fill-mask", "text2text-generation", "text-classification",
     "feature-extraction"}

\* C16: with default parameters the synthesized input has the shape
\* signature of the policy table: a vision family gives one rank-4 tensor
\* [1, 3, H, W] named pixel_values; zero-shot-image-classification gives the
\* bundle pixel_values (rank 4), input_ids [1, 77], attention_mask [1, 77] of
\* ones; a text family gives one rank-2 integer tensor [1, L] named input_ids.
ShapeSignatureFollowsPolicy ==
    DeclaresNothing(attrs) =>
        \A i \in DOMAIN synth :
            LET r == synth[i]
            IN  /\ task \in VisionFamilies =>
                       /\ ~r.raised /\ r.kind = "tensor" /\ r.names = <<"pixel_values">>
                       /\ Len(r.tensors[1].shape) = 4
                       /\ r.tensors[1].shape[1] = 1 /\ r.tensors[1].shape[2] = 3
                /\ task = "zero-shot-image-classification" =>
                       /\ ~r.raised /\ r.kind = "dict"
                       /\ r.names = <<"pixel_values", "input_ids", "attention_mask">>
                       /\ Len(r.tensors[1].shape) = 4
                       /\ r.tensors[2].shape = <<1, 77>>
                       /\ r.tensors[3].shape = <<1, 77>> /\ r.tensors[3].fill = "ones"
                /\ task \in TextFamilies =>
                       /\ ~r.raised /\ r.kind = "tensor" /\ r.names = <<"input_ids">>
                       /\ r.tensors[1].dtype = "int64"
                       /\ Len(r.tensors[1].shape) = 2 /\ r.tensors[1].shape[1] = 1

\* C16 witness: the bundle was synthesized for a zero-shot model of the
\* Hugging Face converter that declares nothing.
ShapeSignatureFollowsPolicy_Witness ==
    /\ conv = "hf" /\ task = "zero-shot-image-classification"
    /\ DeclaresNothing(attrs)
    /\ synth # <<>> /\ synth[1].kind = "dict"

\* C17: every dimension of every synthesized tensor is a positive integer,
\* whatever integers the config declares for the image size and the maximum
\* position, zero and negative ones included (a synthesis that raises
\* gives no tensor at all).
EveryDimensionIsPositive ==
    attrs.vision_config.kind # "object" =>
        \A i \in DOMAIN synth :
            /\ ~synth[i].raised
            /\ \A k \in DOMAIN synth[i].tensors :
                   \A j \in DOMAIN synth[i].tensors[k].shape :
                       synth[i].tensors[k].shape[j] > 0

\* the vocabulary size the model declares: that of its config where it has
\* one, else its own vocab_size attribute
DeclaredVocab(a) == IF a.has_config THEN a.vocab_size ELSE a.model_vocab_size

\* C18: for a text family the synthesized sequence length is min(128,
\* declared maximum position): never above 128, and 128 when none is
\* declared; the token values lie in [0, vocab_size), with vocab_size 30522
\* when the model declares none.
SequenceLengthIsCapped ==
    \A i \in DOMAIN synth :
        (task \in TextFamilies /\ ~synth[i].raised) =>
            LET t == synth[i].tensors[1]
                mp == attrs.max_position_embeddings
                vs == DeclaredVocab(attrs)
            IN  /\ t.shape[2] <= 128
                /\ mp.t = "absent" => t.shape[2] = 128
                /\ (mp.t = "int" /\ mp.v <= 128) => t.shape[2] = mp.v
                /\ (mp.t = "int" /\ mp.v > 128) => t.shape[2] = 128
                /\ t.low = 0
                /\ t.high = IF vs.t = "absent" THEN 30522 ELSE vs.v
                /\ t.low <= t.value /\ t.value < t.high

\* C18 witness: the input of a text model that declares more positions than
\* the cap and no vocabulary size.
SequenceLengthIsCapped_Witness ==
    /\ conv = "hf" /\ task \in TextFamilies /\ synth # <<>> /\ ~synth[1].raised
    /\ attrs.max_position_embeddings = PInt(512)
    /\ synth[1].tensors[1].shape = <<1, 128>>
    /\ synth[1].tensors[1].high = 30522

\* the edge length the config declares: the first of image_size, img_size
\* and sample_size that is there
DeclaredSize(a) ==
    IF a.image_size # PAbsent THEN a.image_size
    ELSE IF a.img_size # PAbsent THEN a.img_size
    ELSE a.sample_size

\* C19: for a vision family height and width are 224 unless the model
\* declares an edge length; a declared scalar s (a positive integer) gives
\* height = width = s, a declared list or tuple gives height = its first
\* and width = its last element.
VisionSizeFollowsDeclaration ==
    \A i \in DOMAIN synth :
        (conv = "hf" /\ task \in VisionFamilies /\ ~synth[i].raised) =>
            LET shape == synth[i].tensors[1].shape
                size == DeclaredSize(attrs)
            IN  /\ size.t = "absent" => shape = <<1, 3, 224, 224>>
                /\ (size.t = "int" /\ size.v > 0) => shape = <<1, 3, size.v, size.v>>
                /\ size.t = "list" =>
                       shape = <<1, 3, size.items[1], size.items[Len(size.items)]>>

\* C19 witness: the input of a vision model whose config declares a
\* rectangular size.
VisionSizeFollowsDeclaration_Witness ==
    /\ conv = "hf" /\ task \in VisionFamilies /\ synth # <<>>
    /\ attrs.image_size = PList(<<480, 640>>)
    /\ synth[1].tensors[1].shape = <<1, 3, 480, 640>>

\* C20: the input synthesizer is deterministic: every two calls for the
\* same task and the same model give the same input, with the same names,
\* the same shapes and the same values.
SynthesisIsDeterministic ==
    \A i, j \in DOMAIN synth : synth[i] = synth[j]

(***************************************************************************)
(* Specification of the manifest writer: the calls of                     *)
(* write_multi_encoder_manifest over an output directory, as the Optimum   *)
(* strategies make them when the directory holds more than one ONNX file.  *)
(***************************************************************************)
\* how many files the output directory holds
MaxFiles == 4

\* how many times the manifest is written
MaxWrites == 2

\* the files Optimum writes for CLIP and for a seq2seq model, in the root
\* of the output directory or in onnx/, and a single model.onnx
ManifestPaths ==
    {F("text_model.onnx"), F("vision_model.onnx"), F("encoder_model.onnx"),
     F("decoder_model.onnx"), F("decoder_with_past_model.onnx"), F("model.onnx"),
     FSub("text_model.onnx"), FSub("vision_model.onnx")}

ManifestDirs == {S \in SUBSET ManifestPaths : Cardinality(S) <= MaxFiles}

\* the task argument of convert_common's copy: None (its default), the
\* empty string, 'auto' and task labels
ManifestTasks ==
    {"None", "", "auto", "fill-mask", "zero-shot-image-classification"}

\* the task argument try_optimum_export gives (lines 375-387): a task
\* label or 'auto'
HFManifestTasks == ManifestTasks \ {"None", ""}

\* a manifest an earlier run left in the directory
StaleManifest ==
    Manifest("multi-model", "unknown", "auto",
             <<<<"model_0", "a.onnx">>, <<"model_1", "b.onnx">>>>,
             <<"a.onnx", "b.onnx">>)

\* convert_huggingface.py lines 419-425 and 461-504
HFWriteManifest ==
    /\ conv = "hf" /\ pc = "manifest" /\ Len(written) < MaxWrites
    /\ LET onnx_files == find_onnx_files_hf(fs)
       IN  /\ Len(onnx_files) > 1
           /\ \E t \in HFManifestTasks :
                /\ task' = t
                /\ manifest' = StoreManifest(manifest,
                                   write_multi_encoder_manifest_hf(onnx_files, t))
                /\ written' = Append(written,
                                  Write("hf", onnx_files, t, json_dump(manifest')))
    /\ UNCHANGED <<inputs, synthVars, hub, log, modelId, fs, pc, status, hist, detected,
                   dummy, loadTries, strategies, optTask>>

\* convert_pytorch.py lines 198-204 and convert_common.py lines 32-74
CommonWriteManifest ==
    /\ conv = "pytorch" /\ pc = "manifest" /\ Len(written) < MaxWrites
    /\ LET onnx_files == find_onnx_files(fs)
       IN  /\ Len(onnx_files) > 1
           /\ \E t \in ManifestTasks :
                /\ task' = t
                /\ manifest' = StoreManifest(manifest,
                                   write_multi_encoder_manifest(onnx_files, t))
                /\ written' = Append(written,
                                  Write("common", onnx_files, t, json_dump(manifest')))
    /\ UNCHANGED <<inputs, synthVars, hub, log, modelId, fs, pc, status, hist, detected,
                   dummy, loadTries, strategies, optTask>>

InitManifest ==
    /\ conv \in {"hf", "pytorch"}
    /\ argc = 4
    /\ missing = {}
    /\ modelPath = [kind |-> "dir", name |-> <<"m">>]
    /\ axonId = IF conv = "hf" THEN Id_clip_vit ELSE Id_pt_clip
    /\ config = NoConfig
    /\ outName = "model.onnx"
    /\ fs \in ManifestDirs
    /\ manifest \in {NoManifest, StaleManifest}
    /\ pc = "manifest"
    /\ status = -1
    /\ hist = <<>>
    /\ detected = "None"
    /\ task = "None"
    /\ dummy = "none"
    /\ loadTries = 0
    /\ strategies = <<>>
    /\ optTask = "None"
    /\ modelId = <<>>
    /\ attrs = DefaultParams
    /\ modelClass = "None"
    /\ synth = <<>>
    /\ hub = NoHubCall
    /\ written = <<>>
    /\ log = <<>>

NextManifest == HFWriteManifest \/ CommonWriteManifest

SpecManifest == InitManifest /\ [][NextManifest]_vars

\* the set of the file names a call was given
NamesOf(w) == {w.onnx_files[i].name : i \in DOMAIN w.onnx_files}

\* the member of a written document
Member(content, key) ==
    (CHOOSE m \in Range(content) : m[1] = key)[2]

\* C21: given the output file names text_model.onnx and vision_model.onnx
\* and no other, the manifest writer produces architecture "multi-encoder",
\* encoder_type "clip" and exactly the components text_encoder:
\* text_model.onnx and vision_encoder: vision_model.onnx.
ClipFilesGiveMultiEncoder ==
    \A i \in DOMAIN written :
        NamesOf(written[i]) = {"text_model.onnx", "vision_model.onnx"} =>
            /\ Member(written[i].content, "architecture") = "multi-encoder"
            /\ Member(written[i].content, "encoder_type") = "clip"
            /\ Member(written[i].content, "components") =
                   <<<<"text_encoder", "text_model.onnx">>,
                     <<"vision_encoder", "vision_model.onnx">>>>

\* C21 witness: the writer of convert_common was given the two CLIP files
\* and the manifest in the directory is the multi-encoder one.
ClipFilesGiveMultiEncoder_Witness ==
    /\ written # <<>>
    /\ written[Len(written)].copy = "common"
    /\ NamesOf(written[Len(written)]) = {"text_model.onnx", "vision_model.onnx"}
    /\ manifest.architecture = "multi-encoder"

\* the roles of a written document, in the order of the components
RolesOf(content) ==
    LET components == Member(content, "components")
    IN  [k \in DOMAIN components |-> components[k][1]]

\* C22: given the output file names encoder_model.onnx and
\* decoder_model.onnx, with or without decoder_with_past_model.onnx, the
\* manifest writer produces architecture "encoder-decoder", encoder_type
\* "seq2seq" and the roles encoder and decoder; the role decoder_with_past
\* is present if and only if decoder_with_past_model.onnx is among the files.
Seq2SeqFilesGiveEncoderDecoder ==
    \A i \in DOMAIN written :
        LET names == NamesOf(written[i])
            content == written[i].content
        IN  ( /\ {"encoder_model.onnx", "decoder_model.onnx"} \subseteq names
              /\ names \subseteq {"encoder_model.onnx", "decoder_model.onnx",
                                  "decoder_with_past_model.onnx"} ) =>
                /\ Member(content, "architecture") = "encoder-decoder"
                /\ Member(content, "encoder_type") = "seq2seq"
                /\ InSeq(<<"encoder", "encoder_model.onnx">>,
                         Member(content, "components"))
                /\ InSeq(<<"decoder", "decoder_model.onnx">>,
                         Member(content, "components"))
                /\ InSeq("decoder_with_past", RolesOf(content))
                       <=> "decoder_with_past_model.onnx" \in names
                /\ Range(RolesOf(content)) \subseteq
                       {"encoder", "decoder", "decoder_with_past"}

\* C22 witness: the three seq2seq files were given and the document has the
\* three roles.
Seq2SeqFilesGiveEncoderDecoder_Witness ==
    /\ written # <<>>
    /\ NamesOf(written[Len(written)]) =
           {"encoder_model.onnx", "decoder_model.onnx", "decoder_with_past_model.onnx"}
    /\ RolesOf(written[Len(written)].content) =
           <<"encoder", "decoder", "decoder_with_past">>
    /\ manifest.architecture = "encoder-decoder"

\* the file name sets the classification names
ClipSet == {"text_model.onnx", "vision_model.onnx"}

Seq2SeqSets ==
    {{"encoder_model.onnx", "decoder_model.onnx"},
     {"encoder_model.onnx", "decoder_model.onnx", "decoder_with_past_model.onnx"}}

\* C23: the classification matches the file name set exactly: every call
\* with more than one file whose names are not exactly the CLIP pair and
\* not exactly the seq2seq pair or triple is classified "multi-model", with
\* the roles model_0..model_{n-1} given to the n files in the order of the
\* list.
OtherSetsAreMultiModel ==
    \A i \in DOMAIN written :
        LET w == written[i]
            n == Len(w.onnx_files)
        IN  (n > 1 /\ NamesOf(w) # ClipSet /\ NamesOf(w) \notin Seq2SeqSets) =>
                /\ Member(w.content, "architecture") = "multi-model"
                /\ Member(w.content, "components") =
                       [k \in 1..n |-> <<ModelRole[k], w.onnx_files[k].name>>]

\* C24: a manifest is created only when a successful strategy yields more
\* than one output file: whenever the output directory holds a manifest,
\* an attempt of the invocation succeeded having written more than one
\* file, and after an invocation that succeeds with a single output file
\* the directory holds no manifest.
ManifestOnlyForMultiFileOutput ==
    /\ manifest # NoManifest =>
           \E i \in DOMAIN hist : hist[i].ok /\ Cardinality(hist[i].fresh) > 1
    /\ ( /\ status = 0
         /\ \E i \in DOMAIN hist : hist[i].ok /\ Cardinality(hist[i].fresh) = 1 ) =>
           manifest = NoManifest

\* C25: the task field of every manifest a converter writes is the resolved
\* task label: a task label of the registry or "unknown", whatever task
\* detection gave.
ManifestTaskIsTaskLabel ==
    \A i \in DOMAIN written :
        Member(written[i].content, "task") \in TaskLabels \cup {"unknown"}

\* the document a copy of the writer builds from its arguments alone
DocumentOf(w) ==
    IF w.copy = "hf"
    THEN write_multi_encoder_manifest_hf(w.onnx_files, w.task)
    ELSE write_multi_encoder_manifest(w.onnx_files, w.task)

\* C26: writing the manifest is idempotent: two calls with identical inputs
\* leave the same content, member for member in the same order, in the one
\* manifest file, and an existing manifest is overwritten: the content
\* depends only on the inputs of the last write.
ManifestWriteIsIdempotent ==
    /\ \A i, j \in DOMAIN written :
           ( /\ written[i].copy = written[j].copy
             /\ written[i].onnx_files = written[j].onnx_files
             /\ written[i].task = written[j].task ) =>
               written[i].content = written[j].content
    /\ written # <<>> =>
           /\ json_dump(manifest) = written[Len(written)].content
           /\ json_dump(manifest) = json_dump(DocumentOf(written[Len(written)]))

\* C26 witness: the manifest was written twice with the same inputs and
\* holds the content of the second write.
ManifestWriteIsIdempotent_Witness ==
    /\ Len(written) = 2
    /\ written[1] = written[2]
    /\ written[2].copy = "common"
    /\ json_dump(manifest) = written[2].content
    /\ manifest # StaleManifest

(***************************************************************************)
(* Specification of identifier parsing: extract_hf_model_id and            *)
(* extract_pytorch_model_id over identifiers with and without a namespace  *)
(* prefix and a version suffix.                                            *)
(***************************************************************************)
\* "", "hf/", "pytorch/", "tfhub/", "microsoft/", "pytorch/vision:v0.10.0/"
IdPrefixes ==
    {<<>>, <<"h","f","/">>, <<"p","y","t","o","r","c","h","/">>,
     <<"t","f","h","u","b","/">>, <<"m","i","c","r","o","s","o","f","t","/">>,
     <<"p","y","t","o","r","c","h","/","v","i","s","i","o","n",":","v","0",".","1","0",".","0","/">>}

\* "distilgpt2", "resnet-50", "resnet50"
IdNames ==
    {<<"d","i","s","t","i","l","g","p","t","2">>,
     <<"r","e","s","n","e","t","-","5","0">>,
     <<"r","e","s","n","e","t","5","0">>}

\* "", "@latest", "@1@2"
IdVersions == {<<>>, <<"@","l","a","t","e","s","t">>, <<"@","1","@","2">>}

AxonIds == {p \o n \o v : p \in IdPrefixes, n \in IdNames, v \in IdVersions}

\* convert_huggingface_to_onnx line 801
HFParseId ==
    /\ conv = "hf" /\ pc = "ids"
    /\ modelId' = extract_hf_model_id(axonId)
    /\ pc' = "parsed"
    /\ UNCHANGED <<inputs, synthVars, hub, written, log, fs, manifest, status, hist,
                   detected, task, dummy, loadTries, strategies, optTask>>

\* convert_pytorch_to_onnx line 447
PTParseId ==
    /\ conv = "pytorch" /\ pc = "ids"
    /\ modelId' = extract_pytorch_model_id(axonId)
    /\ pc' = "parsed"
    /\ UNCHANGED <<inputs, synthVars, hub, written, log, fs, manifest, status, hist,
                   detected, task, dummy, loadTries, strategies, optTask>>

InitIds ==
    /\ conv \in {"hf", "pytorch"}
    /\ argc = 4
    /\ missing = {}
    /\ modelPath = [kind |-> "dir", name |-> <<"m">>]
    /\ axonId \in AxonIds
    /\ config = NoConfig
    /\ outName = "model.onnx"
    /\ fs = {}
    /\ manifest = NoManifest
    /\ pc = "ids"
    /\ status = -1
    /\ hist = <<>>
    /\ detected = "None"
    /\ task = "None"
    /\ dummy = "none"
    /\ loadTries = 0
    /\ strategies = <<>>
    /\ optTask = "None"
    /\ modelId = <<>>
    /\ attrs = DefaultParams
    /\ modelClass = "None"
    /\ synth = <<>>
    /\ hub = NoHubCall
    /\ written = <<>>
    /\ log = <<>>

NextIds == HFParseId \/ PTParseId

SpecIds == InitIds /\ [][NextIds]_vars

\* "hf/"
HfPrefix == <<"h","f","/">>

\* s is pre, then mid, then nothing or a suffix that begins with '@'
SplitsAs(s, pre, mid) ==
    /\ Len(s) >= Len(pre) + Len(mid)
    /\ SubSeq(s, 1, Len(pre) + Len(mid)) = pre \o mid
    /\ Len(s) > Len(pre) + Len(mid) => s[Len(pre) + Len(mid) + 1] = "@"

\* C27: extract_hf_model_id drops a leading namespace only when it is the
\* known prefix "hf/" and truncates at the first '@': "hf/distilgpt2@latest"
\* gives "distilgpt2", and an identifier without the prefix and without '@'
\* is returned unchanged.
HfIdDropsOnlyKnownPrefix ==
    (conv = "hf" /\ pc = "parsed") =>
        /\ ~HasCh(modelId, "@")
        /\ StartsWith(axonId, HfPrefix) => SplitsAs(axonId, HfPrefix, modelId)
        /\ ~StartsWith(axonId, HfPrefix) => SplitsAs(axonId, <<>>, modelId)
        /\ (~StartsWith(axonId, HfPrefix) /\ ~HasCh(axonId, "@")) => modelId = axonId
        /\ axonId = Id_hf_distilgpt2 => Join(modelId) = "distilgpt2"

\* C27 witness: "microsoft/resnet-50" was parsed and kept its namespace.
HfIdDropsOnlyKnownPrefix_Witness ==
    /\ conv = "hf" /\ pc = "parsed"
    /\ Join(axonId) = "microsoft/resnet-50"
    /\ modelId = axonId

\* the namespace prefixes the converters document: "hf/", "pytorch/",
\* "tfhub/"
KnownPrefixes ==
    {HfPrefix, <<"p","y","t","o","r","c","h","/">>, <<"t","f","h","u","b","/">>}

\* C28: extract_pytorch_model_id drops the leading '/'-separated segment of
\* an identifier only when that segment is a known namespace prefix, keeps
\* a leading segment that is not a known prefix, and truncates the result
\* at the first '@'.
PtIdDropsOnlyKnownPrefix ==
    (conv = "pytorch" /\ pc = "parsed") =>
        /\ ~HasCh(modelId, "@")
        /\ \A p \in KnownPrefixes :
               StartsWith(axonId, p) => SplitsAs(axonId, p, modelId)
        /\ (\A p \in KnownPrefixes : ~StartsWith(axonId, p)) =>
               SplitsAs(axonId, <<>>, modelId)

\* C29: for a PyTorch converter invocation whose identifier contains '/',
\* the PyTorch Hub attempt splits the identifier at its last '/': the repo
\* is everything before it and the model everything after it, so
\* "pytorch/vision:v0.10.0/resnet50" is loaded with repo
\* "pytorch/vision:v0.10.0" and model "resnet50".
HubSplitsIdentifierAtLastSlash ==
    (conv = "pytorch" /\ HasCh(axonId, "/") /\ Attempted("hub")) =>
        /\ hub.called
        /\ hub.repo = BeforeLast(axonId, "/")
        /\ hub.model_name = AfterLast(axonId, "/")
        /\ axonId = Id_pt_vision_resnet50 =>
               /\ Join(hub.repo) = "pytorch/vision:v0.10.0"
               /\ Join(hub.model_name) = "resnet50"

\* the documented order of the Hugging Face strategies
HFOrder == <<"optimum", "torch_export", "jit_trace">>

\* C30: the Hugging Face chain attempts its strategies in the documented
\* order, Optimum export, then torch.onnx.export, then torch.jit.trace, and
\* a later strategy is invoked only after all earlier ones have reported
\* failure.
HFStrategiesInDocumentedOrder ==
    conv = "hf" =>
        /\ Len(hist) <= Len(HFOrder)
        /\ \A i \in DOMAIN hist : hist[i].name = HFOrder[i]
        /\ \A i, j \in DOMAIN hist : i < j => ~hist[i].ok

\* C30 witness: the three strategies were attempted, the first two failed
\* and the third succeeded.
HFStrategiesInDocumentedOrder_Witness ==
    /\ conv = "hf" /\ status = 0
    /\ Len(hist) = 3
    /\ hist[3].name = "jit_trace" /\ hist[3].ok

\* the attempts that work on the model path, and those that work on the
\* identifier
FileBased == {"torchscript", "state_dict", "saved_model", "keras_model", "keras_h5"}

IdentifierBased == {"hub", "torchvision", "tfhub"}

\* the identifier-based attempts of the chain of the running converter
IdentifierBasedOf ==
    IF conv = "pytorch" THEN {"hub", "torchvision"}
    ELSE IF conv = "tf" THEN {"tfhub"}
    ELSE {}

\* C31: in the TensorFlow and PyTorch chains every file-based attempt is
\* invoked before any identifier-based attempt, and the identifier-based
\* attempts are in the chain whether or not the model path exists: once the
\* chain is built each of them is still to come or was attempted, and a run
\* in which every attempt failed has attempted each of them.
FileBasedBeforeIdentifierBased ==
    /\ \A i, j \in DOMAIN hist :
           (hist[i].name \in IdentifierBased /\ hist[j].name \in FileBased) => j < i
    /\ (conv = "pytorch" /\ pc = "pt_chain") =>
           \A name \in IdentifierBasedOf :
               Attempted(name) \/ InSeq(name, strategies)
    /\ (conv \in {"pytorch", "tf"} /\ Failed /\ missing = {}) =>
           \A name \in IdentifierBasedOf : Attempted(name)

\* C32: if every attempt of a chain fails, the result of the chain is
\* failure and carries the diagnostic message of the last failed attempt,
\* and only that one is retained.
FailureCarriesLastDiagnostic ==
    ( /\ pc = "exited" /\ argc = 4
      /\ hist # <<>>
      /\ \A name \in ChainOf : Attempted(name)
      /\ \A i \in DOMAIN hist : ~hist[i].ok ) =>
        /\ status = 1
        /\ log = <<hist[Len(hist)].name>>

Resolved(t) == IF t \in {"None", "auto"} THEN "unresolved" ELSE t

\* C34: within one convert_huggingface_to_onnx invocation every step uses
\* the same resolved task label: the label the Optimum attempt exported
\* with, the one from the "clip" identifier override included, is the label
\* load_model_and_tokenizer chooses the loader class with and
\* create_dummy_input synthesizes the input for.
OneTaskLabelPerInvocation ==
    ( /\ conv = "hf"
      /\ pc \in {"hf_torch_export", "hf_jit_trace"}
      /\ \E i \in DOMAIN hist : hist[i].name = "optimum" /\ hist[i].called ) =>
        /\ Resolved(task) = Resolved(optTask)
        /\ dummy = create_dummy_input_kind(optTask)

\* load_model_and_tokenizer raised: the invocation ended on the outer
\* except clause after the Optimum attempt
LoadRaised ==
    /\ conv = "hf" /\ pc = "exited"
    /\ Attempted("optimum")
    /\ log # <<>> /\ log[Len(log)] = "error"

DictInputAttempt(names) ==
    \/ /\ conv = "hf" /\ pc = "hf_jit_trace" /\ dummy = "dict"
       /\ "jit_trace" \in names
    \/ /\ conv = "pytorch" /\ pc = "pt_chain"
       /\ Head(strategies) \in names
       /\ task' = "zero-shot-image-classification"

\* The attempt of the step reported failure, called no exporter and left
\* the directory and the manifest as they were.
RefusedUntouched ==
    /\ Len(hist') > Len(hist)
    /\ ~hist'[Len(hist) + 1].ok
    /\ ~hist'[Len(hist) + 1].called
    /\ fs' = fs
    /\ manifest' = manifest

\* C36: for a multi-input (dict) synthetic input the torch.jit.trace
\* attempt of the Hugging Face chain and the PyTorch Hub, TorchScript and
\* state-dict attempts of the PyTorch chain report failure without calling
\* the exporter and leave the destination path and the output directory
\* unchanged.
DictInputRefusedUntouched ==
    [][DictInputAttempt({"jit_trace", "hub", "torchscript", "state_dict"})
          => RefusedUntouched]_vars

\* The same without the PyTorch Hub attempt.
DictInputRefusedExceptHub ==
    [][DictInputAttempt({"jit_trace", "torchscript", "state_dict"})
          => RefusedUntouched]_vars

\* The step is an attempt of the given converter at the given position that
\* called main_export, found exactly one .onnx file (found is what
\* find_onnx_files returned) and reported success.
OptimumFoundOne(c, at, found) ==
    /\ conv = c /\ pc = at
    /\ Len(hist') > Len(hist)
    /\ hist'[Len(hist) + 1].ok
    /\ hist'[Len(hist) + 1].called
    /\ Len(found) = 1

\* After the step the destination path exists, and the file the attempt
\* found is not left under another name.
MovedToDestination(found, left) ==
    /\ F(outName) \in fs'
    /\ found[1] # F(outName) => found[1] \notin fs'
    /\ \A i \in DOMAIN left : left[i] = F(outName)

\* C37: when an Optimum attempt (try_optimum_export,
\* try_optimum_export_pytorch) finds exactly one .onnx file after the export
\* and reports success, a file exists at the destination path afterwards and
\* the exported file no longer exists under a different name in the output
\* directory.
SingleExportMovedToDestination ==
    [][/\ OptimumFoundOne("hf", "hf_optimum",
                          find_onnx_files_hf(fs \cup hist'[Len(hist) + 1].fresh))
          => MovedToDestination(
                 find_onnx_files_hf(fs \cup hist'[Len(hist) + 1].fresh),
                 find_onnx_files_hf(fs'))
       /\ OptimumFoundOne("pytorch", "pt_optimum",
                          find_onnx_files(fs \cup hist'[Len(hist) + 1].fresh))
          => MovedToDestination(
                 find_onnx_files(fs \cup hist'[Len(hist) + 1].fresh),
                 find_onnx_files(fs'))
       /\ (/\ OptimumFoundOne("pytorch", "pt_chain",
                              find_onnx_files(fs \cup hist'[Len(hist) + 1].fresh))
           /\ Len(hist') = Len(hist) + 2)
          => MovedToDestination(
                 find_onnx_files(fs \cup hist'[Len(hist) + 1].fresh),
                 find_onnx_files(fs'))]_vars

\* C37 witness: the Hugging Face Optimum attempt exported model.onnx alone,
\* reported success, and the file is at the destination out.onnx and no
\* longer at model.onnx.
SingleExportMovedToDestination_Witness ==
    /\ conv = "hf" /\ outName = "out.onnx"
    /\ Len(hist) = 1
    /\ hist[1].name = "optimum" /\ hist[1].ok
    /\ hist[1].fresh = {F("model.onnx")}
    /\ F("out.onnx") \in fs
    /\ F("model.onnx") \notin fs

\* The fallback find_onnx_files of convert_pytorch.py (used when
\* convert_common cannot be imported): the root of the directory only
find_onnx_files_fallback(files) ==
    Sorted({p \in files : p.dir = "" /\ EndsWithOnnx(p.name)})

\* The fallback write_multi_encoder_manifest of convert_pytorch.py
write_multi_encoder_manifest_fallback(onnx_files, t) ==
    ClassifyManifest(Basenames(onnx_files),
                     IF t \in {"None", ""} THEN "unknown" ELSE t)

\* The three copies of the writer give the same document for a file list
\* and a task
WritersAgreeOn(onnx_files, t) ==
    /\ json_dump(write_multi_encoder_manifest_hf(onnx_files, t))
         = json_dump(write_multi_encoder_manifest(onnx_files, t))
    /\ json_dump(write_multi_encoder_manifest_fallback(onnx_files, t))
         = json_dump(write_multi_encoder_manifest(onnx_files, t))

\* The three copies of find_onnx_files give the same list for a directory
FindersAgreeOn(files) ==
    /\ find_onnx_files_hf(files) = find_onnx_files(files)
    /\ find_onnx_files_fallback(files) = find_onnx_files(files)

\* C38: the three copies of the manifest writer (convert_common, the
\* fallback copy in convert_pytorch.py, the local copy in
\* convert_huggingface.py) write the same architecture, encoder_type, task,
\* components and files for the same file list and task, and the copies of
\* find_onnx_files return the same file list for the same directory.
ManifestCopiesAreEquivalent ==
    /\ FindersAgreeOn(fs)
    /\ \A i \in DOMAIN written :
         WritersAgreeOn(written[i].onnx_files, written[i].task)

\* The writers alone, for the tasks the Hugging Face copy is called with
WritersAgreeOnLabels ==
    \A i \in DOMAIN written :
        written[i].task \in HFManifestTasks
            => WritersAgreeOn(written[i].onnx_files, written[i].task)

\* The converters under the proviso that every external call returns or
\* raises: a step that can be taken is eventually taken.  This is weak
\* fairness of Next written out, []<>(~ENABLED <<Next>>_vars) \/
\* []<><<Next>>_vars: every step of Next changes pc or hist, and a step of
\* Next is possible exactly when the invocation has not exited.
Fairness == []<>(pc = "exited") \/ []<><<Next>>_vars

SpecLive == Init /\ [][Next]_vars /\ Fairness

\* No strategy is attempted twice by the chain itself (the Optimum call
\* nested in the PyTorch Hub attempt is part of that attempt)
NoStrategyTwice ==
    \A i, j \in DOMAIN hist :
        (i < j /\ hist[i].name = hist[j].name) => hist[j].nested

\* C39: provided every external export or load call returns or raises, every
\* converter invocation eventually terminates with a success or failure
\* result after a bounded number of attempts: the chain is a finite list
\* traversed once, with no loop back to an earlier strategy.
InvocationTerminates ==
    /\ [](NoStrategyTwice /\ Len(hist) <= 6)
    /\ <>(pc = "exited" /\ status \in {0, 1})

\* C39 witness: the PyTorch chain has gone through Strategy 0 and its four
\* strategies, all failed, and the invocation has ended.
InvocationTerminates_Witness ==
    /\ conv = "pytorch" /\ pc = "exited" /\ status = 1
    /\ \A name \in {"optimum", "torchscript", "state_dict", "hub", "torchvision"} :
         Attempted(name)

====
